---- MODULE Spec2Model ----
(***************************************************************************)
(* Verification model of the lol-blender asset codec and conversion layer  *)
(* (src/io/gltf_bridge.py, src/io/anm_import_direct.py and the format      *)
(* operators under src/operators/).                                        *)
(*                                                                         *)
(* Conventions                                                             *)
(*  - Python floats are modelled as exact rationals <<n, d>> (d > 0, in    *)
(*    lowest terms); float rounding is not modelled.                       *)
(*  - Python lists are TLA+ sequences; a Python index i is position i + 1. *)
(*  - Each operator pipeline is one specification over its own group of    *)
(*    variables; the other groups stay at their idle values.               *)
(***************************************************************************)
EXTENDS Integers, Sequences, FiniteSets, TLC

VARIABLES
    \* LOLLeagueLimitInfluences_V4.execute
    lpc,              \* position in execute: "start", "loop", "done"
    obj_type,         \* context.active_object.type ("NONE" when there is no object)
    groups0,          \* vertex.groups of every vertex when execute was entered
    groups,           \* vertex.groups of every vertex: sequences of [group, weight]
    vertex_groups,    \* len(obj.vertex_groups)
    vindex,           \* number of vertices the loop has processed
    vertices_fixed,   \* the counter of line 33
    lresult           \* what execute returned: "NONE", "CANCELLED", "FINISHED"

limVars == <<lpc, obj_type, groups0, groups, vertex_groups, vindex, vertices_fixed, lresult>>

VARIABLES
    \* root-joint re-encoding of animation samples
    rpc,              \* "standard", "stored", "decoded"
    rq,               \* a standard quaternion (w, x, y, z)
    rt,               \* a standard translation (x, y, z)
    rstored,          \* the sample as the animation file stores it
    rdecoded          \* the sample as apply_anm_to_armature_direct decodes it

rootVars == <<rpc, rq, rt, rstored, rdecoded>>

VARIABLES
    \* apply_anm_to_armature_direct
    apc,              \* "start", "tracks", "frames", "done"
    anm,              \* the ANM file as read: [duration, tracks]
    scale_factor,     \* the scale_factor argument
    track_index,      \* number of tracks the outer loop has finished
    frame,            \* the frame the inner loop is at
    fcurves,          \* bone name -> (frame_num -> keyframe) of the action
    aresult           \* the success flag returned ("NONE" while running)

anmVars == <<apc, anm, scale_factor, track_index, frame, fcurves, aresult>>

VARIABLES
    \* convert_skl_skn_to_gltf / convert_gltf_to_skl_skn
    kpc,              \* which files exist: "skl", "skl-gltf", "skl-gltf-skl",
                      \*                    "gltf", "gltf-skl", "gltf-skl-gltf"
    kscale,           \* the scale_factor argument of both conversions
    skl_file,         \* the SKL a round trip starts from
    skn_file,         \* the SKN a round trip starts from
    gltf_file,        \* the glTF written from them, or the glTF a run starts from
    skl_back,         \* the SKL written by convert_gltf_to_skl_skn
    skn_back,         \* the SKN written by convert_gltf_to_skl_skn
    gltf_back         \* the glTF written from skl_back and skn_back

sklVars == <<kpc, kscale, skl_file, skn_file, gltf_file, skl_back, skn_back, gltf_back>>

VARIABLES
    \* static objects: import and export of SCB and SCO
    opc,              \* "start", the reader's loop, "read", "imported", "exported",
                      \* "cancelled" (import), "export_cancelled"
    sfile,            \* the file being imported
    import_scale,     \* scale_factor of the import operator
    fpos,             \* f.tell() in read_scb, the line index in read_sco
    loop_i,           \* i of the vertex or face loop being run
    rd,               \* the locals of read_scb / read_sco
    data,             \* what read_scb / read_sco returned
    scene,            \* the objects create_mesh made, and the active object
    export_scale,     \* scale_factor of the export operator
    written           \* what export computed and the file it wrote

staticVars == <<opc, sfile, import_scale, fpos, loop_i, rd, data, scene, export_scale, written>>

VARIABLES
    \* the SKN+SKL and ANM operator pipelines and the lol2gltf wrappers
    op,               \* the operator whose execute is running ("idle" between calls)
    ppc,              \* position in that execute
    inp,              \* what the call was given: selection, counts, files, options
    progress,         \* the export-all-actions loop: current action, exported_count
    disk,             \* state of every file and directory the pipelines touch
    steps,            \* the conversion steps this call has attempted: [name, ok]
    call,             \* the last lol2gltf wrapper call and what it returned
    result,           \* what execute returned: "NONE", "CANCELLED", "FINISHED"
    reports           \* the levels self.report was called with

pipeVars == <<op, ppc, inp, progress, disk, steps, call, result, reports>>

VARIABLES
    \* export_blender_to_gltf and the handler of LOLLeagueExportSKN_V2.execute
    gpc,              \* position in export_blender_to_gltf, then in execute
    names,            \* the names of the mesh's materials and the armature's bones
    original,         \* those names when export_blender_to_gltf was called
    material_renames, \* dict material -> original name, as (slot, name) pairs
    bone_renames,     \* dict original name -> sanitized name, in insertion order
    gltf_out          \* what export_blender_to_gltf returned or raised, and what
                      \* execute reported and returned

gltfVars == <<gpc, names, original, material_renames, bone_renames, gltf_out>>

VARIABLES
    \* the scene the ANM operators work on
    blend             \* bpy.data.objects, the scale of skinned_mesh_obj, the
                      \* armature's active action, and the locals
                      \* original_scale and original_action of export_anm

blendVars == <<blend>>

vars == <<limVars, rootVars, anmVars, sklVars, staticVars, pipeVars, gltfVars, blendVars>>

\* Python's None where a vector, a quaternion or a record may stand
None == <<>>

(***************************************************************************)
(* Exact arithmetic                                                        *)
(***************************************************************************)
Abs(x) == IF x < 0 THEN -x ELSE x

RECURSIVE Gcd(_, _)
Gcd(a, b) == IF b = 0 THEN a ELSE Gcd(b, a % b)

\* the rational n/d in lowest terms with a positive denominator (d # 0)
Rat(n, d) ==
    LET g == Gcd(Abs(n), Abs(d))
        s == IF d < 0 THEN -1 ELSE 1
    IN  <<(s * n) \div g, (s * d) \div g>>

RInt(k)    == <<k, 1>>
RAdd(a, b) == Rat(a[1] * b[2] + b[1] * a[2], a[2] * b[2])
RNeg(a)    == <<-a[1], a[2]>>
RSub(a, b) == RAdd(a, RNeg(b))
RMul(a, b) == Rat(a[1] * b[1], a[2] * b[2])
RDiv(a, b) == Rat(a[1] * b[2], a[2] * b[1])
RLess(a, b) == a[1] * b[2] < b[1] * a[2]

RECURSIVE RSum(_)
RSum(s) == IF s = <<>> THEN RInt(0) ELSE RAdd(Head(s), RSum(Tail(s)))

\* the positions k, k+1, ... of the boolean sequence flags that hold TRUE, in
\* increasing order (the order in which a filtering loop appends)
RECURSIVE SelectIdx(_, _)
SelectIdx(flags, k) ==
    IF k > Len(flags) THEN <<>>
    ELSE (IF flags[k] THEN <<k>> ELSE <<>>) \o SelectIdx(flags, k + 1)

(***************************************************************************)
(* list.sort(key=lambda x: x[1], reverse=True) on a list of                 *)
(* (id, weight) pairs: Python's sort is stable, and with reverse=True       *)
(* elements with equal keys keep their original relative order.            *)
(***************************************************************************)
RECURSIVE InsertDescTiesFirst(_, _)
InsertDescTiesFirst(e, sorted) ==
    IF sorted = <<>> THEN <<e>>
    ELSE IF RLess(e[2], Head(sorted)[2])
         THEN <<Head(sorted)>> \o InsertDescTiesFirst(e, Tail(sorted))
         ELSE <<e>> \o sorted

RECURSIVE SortDescTiesReversed(_)
SortDescTiesReversed(s) ==
    IF s = <<>> THEN <<>>
    ELSE InsertDescTiesFirst(s[Len(s)], SortDescTiesReversed(SubSeq(s, 1, Len(s) - 1)))

RECURSIVE InsertDesc(_, _)
InsertDesc(e, sorted) ==
    IF sorted = <<>> THEN <<e>>
    ELSE IF RLess(Head(sorted)[2], e[2])
         THEN <<e>> \o sorted
         ELSE <<Head(sorted)>> \o InsertDesc(e, Tail(sorted))

RECURSIVE SortByWeightDesc(_)
SortByWeightDesc(s) ==
    IF s = <<>> THEN <<>>
    ELSE InsertDesc(s[Len(s)], SortByWeightDesc(SubSeq(s, 1, Len(s) - 1)))

\* list[:n + 1]
TakeOneMore(s, n) == SubSeq(s, 1, IF Len(s) < n + 1 THEN Len(s) ELSE n + 1)

\* list[:n]
Take(s, n) == SubSeq(s, 1, IF Len(s) < n THEN Len(s) ELSE n)

(***************************************************************************)
(* LOLLeagueLimitInfluences_V4 (src/operators/limit_influences.py)         *)
(***************************************************************************)
MaxInfluences == 4            \* "if len(vertex_weights) > 4", "vertex_weights[:4]"
WeightThreshold == <<1, 1000>>  \* "group.weight > 0.001"

MaxGroups == 6                \* most groups the free vertex of a mesh is in

\* weights a vertex group entry can carry: 0, exactly the threshold, and
\* significant ones
WeightChoices == {<<0, 1>>, <<1, 1000>>, <<1, 20>>, <<1, 10>>}

Entry(g, w) == [group |-> g, weight |-> w]

\* the vertex of the documented truncation example: weights
\* [0.3, 0.25, 0.2, 0.15, 0.05, 0.05] in groups 5, 4, 3, 2, 1, 0
ExampleVertex ==
    << Entry(5, <<3, 10>>), Entry(4, <<1, 4>>), Entry(3, <<1, 5>>),
       Entry(2, <<3, 20>>), Entry(1, <<1, 20>>), Entry(0, <<1, 20>>) >>

\* vertex.groups of a vertex that is in groups 0 .. n-1 with the weights ws
VertexOf(ws) == [k \in 1..Len(ws) |-> Entry(k - 1, ws[k])]

WeightSeqs == UNION {[1..n -> WeightChoices] : n \in 0..MaxGroups}

\* meshes with vertex groups: one free vertex and the example vertex
Meshes == {<<VertexOf(ws), ExampleVertex>> : ws \in WeightSeqs}

\* line 40: "if group.weight > 0.001"
Significant(e) == RLess(WeightThreshold, e.weight)

\* lines 38-41: the (group, weight) pairs of the significant entries, in
\* the order of vertex.groups
VertexWeights(vg) ==
    LET idx == SelectIdx([k \in 1..Len(vg) |-> Significant(vg[k])], 1)
    IN  [k \in 1..Len(idx) |-> <<vg[idx[k]].group, vg[idx[k]].weight>>]

PairWeights(ps) == [k \in 1..Len(ps) |-> ps[k][2]]
PairIds(ps) == {ps[k][1] : k \in 1..Len(ps)}

\* lines 46-49
Top4(vg) == Take(SortByWeightDesc(VertexWeights(vg)), MaxInfluences)

\* lines 56-57: vertex_groups[group_idx].remove([vertex.index]) for every
\* pair of vertex_weights: only the significant entries are removed
RemoveListed(vg, ps) ==
    LET idx == SelectIdx([k \in 1..Len(vg) |-> vg[k].group \notin PairIds(ps)], 1)
    IN  [k \in 1..Len(idx) |-> vg[idx[k]]]

\* lines 60-62: vertex_groups[group_idx].add([vertex.index], w / sum, 'REPLACE')
AddNormalized(vg, top, weight_sum) ==
    vg \o [k \in 1..Len(top) |-> Entry(top[k][1], RDiv(top[k][2], weight_sum))]

\* lines 36-64, the body of the loop for one vertex
LimitVertexGroups(vg) ==
    LET vertex_weights == VertexWeights(vg)
        top_4 == Top4(vg)
        weight_sum == RSum(PairWeights(top_4))
    IN  IF Len(vertex_weights) > MaxInfluences /\ RLess(WeightThreshold, weight_sum)
        THEN AddNormalized(RemoveListed(vg, vertex_weights), top_4, weight_sum)
        ELSE vg

VertexIsFixed(vg) ==
    /\ Len(VertexWeights(vg)) > MaxInfluences
    /\ RLess(WeightThreshold, RSum(PairWeights(Top4(vg))))

LimitIdle ==
    /\ lpc = "idle" /\ obj_type = "NONE" /\ groups0 = <<>> /\ groups = <<>>
    /\ vertex_groups = 0 /\ vindex = 0 /\ vertices_fixed = 0 /\ lresult = "NONE"

LimitInit ==
    /\ lpc = "start"
    /\ \/ obj_type = "MESH" /\ groups0 \in Meshes /\ vertex_groups = MaxGroups
       \/ obj_type = "MESH" /\ groups0 = << <<>>, <<>> >> /\ vertex_groups = 0
       \/ obj_type \in {"NONE", "ARMATURE"} /\ groups0 = <<>> /\ vertex_groups = 0
    /\ groups = groups0
    /\ vindex = 0
    /\ vertices_fixed = 0
    /\ lresult = "NONE"

\* line 28: "if not obj.vertex_groups"
HasVertexGroups == vertex_groups > 0

\* lines 19-23
LimitNoMesh ==
    /\ lpc = "start"
    /\ obj_type # "MESH"
    /\ lpc' = "done"
    /\ lresult' = "CANCELLED"
    /\ UNCHANGED <<obj_type, groups0, groups, vertex_groups, vindex, vertices_fixed>>

\* lines 28-30
LimitNoGroups ==
    /\ lpc = "start"
    /\ obj_type = "MESH"
    /\ ~HasVertexGroups
    /\ lpc' = "done"
    /\ lresult' = "CANCELLED"
    /\ UNCHANGED <<obj_type, groups0, groups, vertex_groups, vindex, vertices_fixed>>

\* lines 19-33, the checks pass
LimitBegin ==
    /\ lpc = "start"
    /\ obj_type = "MESH"
    /\ HasVertexGroups
    /\ lpc' = "loop"
    /\ UNCHANGED <<obj_type, groups0, groups, vertex_groups, vindex, vertices_fixed, lresult>>

\* lines 36-64, one iteration of "for vertex in mesh.vertices"
LimitVertex ==
    /\ lpc = "loop"
    /\ vindex < Len(groups)
    /\ groups' = [groups EXCEPT ![vindex + 1] = LimitVertexGroups(@)]
    /\ vertices_fixed' = vertices_fixed
                         + (IF VertexIsFixed(groups[vindex + 1]) THEN 1 ELSE 0)
    /\ vindex' = vindex + 1
    /\ UNCHANGED <<lpc, obj_type, groups0, vertex_groups, lresult>>

\* lines 66-71
LimitEnd ==
    /\ lpc = "loop"
    /\ vindex = Len(groups)
    /\ lpc' = "done"
    /\ lresult' = "FINISHED"
    /\ UNCHANGED <<obj_type, groups0, groups, vertex_groups, vindex, vertices_fixed>>

(***************************************************************************)
(* Claims about LOLLeagueLimitInfluences_V4.execute                        *)
(***************************************************************************)
\* positions of the entries of vg the operator counts as influences
SigPos(vg) == {i \in 1..Len(vg) : Significant(vg[i])}

\* entry i comes before entry j in "largest weight first, the earlier entry
\* first among equal weights"
Precedes(vg, i, j) ==
    \/ RLess(vg[j].weight, vg[i].weight)
    \/ vg[i].weight = vg[j].weight /\ i < j

\* the positions of the 4 influences that rank first
KeptPos(vg) ==
    {i \in SigPos(vg) :
        Cardinality({j \in SigPos(vg) : Precedes(vg, j, i)}) < MaxInfluences}

RECURSIVE SumWeightsAt(_, _)
SumWeightsAt(vg, P) ==
    IF P = {} THEN RInt(0)
    ELSE LET i == CHOOSE x \in P : TRUE
         IN  RAdd(vg[i].weight, SumWeightsAt(vg, P \ {i}))

GroupsAt(vg, P) == {vg[i].group : i \in P}

\* C4: for every processed vertex that had more than 4 influences of
\* weight > 0.001, the influences that remain are the 4 with the largest
\* weights (of equal weights the one that came first in vertex.groups), each
\* once, and each carries its old weight divided by the sum of those 4.
C4_TopFourKeptAndRenormalized ==
    \A v \in 1..vindex :
        LET before == groups0[v]
            after  == groups[v]
            kept   == KeptPos(before)
        IN  Cardinality(SigPos(before)) > MaxInfluences =>
              /\ {after[k].group : k \in 1..Len(after)} \cap GroupsAt(before, SigPos(before))
                    = GroupsAt(before, kept)
              /\ \A i \in kept :
                    /\ Cardinality({k \in 1..Len(after) : after[k].group = before[i].group}) = 1
                    /\ \A k \in 1..Len(after) :
                          after[k].group = before[i].group =>
                             after[k].weight
                                = RDiv(before[i].weight, SumWeightsAt(before, kept))

\* a processed vertex with more than 4 influences where an equal weight is
\* kept for one entry and dropped for a later one
C4_Witness ==
    \E v \in 1..vindex :
        LET before == groups0[v]
        IN  /\ Cardinality(SigPos(before)) > MaxInfluences
            /\ groups[v] # before
            /\ \E i \in KeptPos(before), j \in SigPos(before) \ KeptPos(before) :
                  before[i].weight = before[j].weight

\* C5 as stated: after execute, every vertex that had more than 4 influences
\* above the threshold has exactly 4 entries in total and its weights sum to
\* 1.0; for the weights [0.3,0.25,0.2,0.15,0.05,0.05] the two 0.05 entries
\* are the ones removed.
C5_ExactlyFourEntriesSummingToOne ==
    lresult = "FINISHED" =>
        \A v \in 1..Len(groups) :
            Cardinality(SigPos(groups0[v])) > MaxInfluences =>
               /\ Len(groups[v]) = MaxInfluences
               /\ RSum([k \in 1..Len(groups[v]) |-> groups[v][k].weight]) = RInt(1)
               /\ groups0[v] = ExampleVertex =>
                     {groups[v][k].group : k \in 1..Len(groups[v])} = {5, 4, 3, 2}

\* export_skl_skn.py line 119: sum(1 for g in vertex.groups if g.weight > 0.001)
InfluenceCount(vg) ==
    Cardinality({k \in 1..Len(vg) : RLess(<<1, 1000>>, vg[k].weight)})

\* export_skl_skn.py lines 117-121: the vertices the SKN+SKL export rejects
InvalidVertices(gs) == {v \in 1..Len(gs) : InfluenceCount(gs[v]) > 4}

\* C29: after LOLLeagueLimitInfluences_V4.execute has returned FINISHED, the
\* influence validation of the SKN+SKL export finds no vertex with more than
\* 4 groups of weight > 0.001, whatever the weights were before.
C29_LimitedMeshPassesValidation ==
    lresult = "FINISHED" => InvalidVertices(groups) = {}

\* a mesh the export rejected before the call, where a vertex keeps entries
\* below the threshold beside its 4 influences
C29_Witness ==
    /\ lresult = "FINISHED"
    /\ InvalidVertices(groups0) = {1, 2}
    /\ Len(groups[1]) > MaxInfluences
    /\ vertices_fixed = 2

(***************************************************************************)
(* Root-joint re-encoding (src/io/anm_import_direct.py, lines 166-201)     *)
(***************************************************************************)
\* quaternions are (w, x, y, z) as mathutils.Quaternion((w, x, y, z))
QW(q) == q[1]
QX(q) == q[2]
QY(q) == q[3]
QZ(q) == q[4]

\* the exporter as documented in lines 167-171:
\*   rotation.x *= -1; rotation.y *= -1
\*   rotation = Quaternion((rotation.y, rotation.z, rotation.w, rotation.x))
EncodeRootRotation(q) ==
    LET r == <<QW(q), -QX(q), -QY(q), QZ(q)>>
    IN  <<QY(r), QZ(r), QW(r), QX(r)>>

\* the exporter as documented in line 172:
\*   translation = Vector((translation.x, translation.z, -translation.y))
EncodeRootTranslation(t) == <<t[1], t[3], -t[2]>>

DecodeRootRotationKeepSigns(rotation) ==
    <<QY(rotation), QZ(rotation), QW(rotation), QX(rotation)>>

\* lines 197-201
DecodeRootRotation(rotation) ==
    LET original_w == QY(rotation)
        original_x == -QZ(rotation)
        original_y == -QW(rotation)
        original_z == QX(rotation)
    IN  <<original_w, original_x, original_y, original_z>>

\* lines 179-183
DecodeRootTranslation(translation) ==
    <<translation[1], -translation[3], translation[2]>>

MaxComponent == 2     \* components of the samples range over -MaxComponent..MaxComponent

Components == (0 - MaxComponent)..MaxComponent

NoSample == [rotate |-> None, translate |-> None]

RootIdle ==
    /\ rpc = "idle" /\ rq = <<1, 0, 0, 0>> /\ rt = <<0, 0, 0>>
    /\ rstored = NoSample /\ rdecoded = NoSample

RootInit ==
    /\ rpc = "standard"
    /\ \/ rq \in Components \X Components \X Components \X Components
          /\ rt = <<0, 0, 0>>
       \/ rq = <<1, 0, 0, 0>>
          /\ rt \in Components \X Components \X Components
    /\ rstored = NoSample
    /\ rdecoded = NoSample

\* the exporter writes the root sample
RootEncode ==
    /\ rpc = "standard"
    /\ rstored' = [rotate |-> EncodeRootRotation(rq),
                   translate |-> EncodeRootTranslation(rt)]
    /\ rpc' = "stored"
    /\ UNCHANGED <<rq, rt, rdecoded>>

\* lines 177-201 on the stored sample
RootDecode ==
    /\ rpc = "stored"
    /\ rdecoded' = [rotate |-> DecodeRootRotation(rstored.rotate),
                    translate |-> DecodeRootTranslation(rstored.translate)]
    /\ rpc' = "decoded"
    /\ UNCHANGED <<rq, rt, rstored>>

\* C2: decoding what the documented encoder stores gives back the standard
\* quaternion and the standard translation, component by component.
C2_RootDecodeInvertsEncode ==
    rpc = "decoded" => rdecoded.rotate = rq /\ rdecoded.translate = rt

\* a decoded sample whose components are all different and nonzero
C2_Witness ==
    /\ rpc = "decoded"
    /\ Cardinality({QW(rq), QX(rq), QY(rq), QZ(rq)} \ {0}) = 4
    /\ rdecoded.rotate = rq

(***************************************************************************)
(* apply_anm_to_armature_direct (src/io/anm_import_direct.py)              *)
(***************************************************************************)
\* scale_factor values: 0.01 (the default), 1.0 and 2.5, within the
\* operators' range [0.0001, 100.0]
ScaleFactors == {<<1, 100>>, <<1, 1>>, <<5, 2>>}

RVec(v) == [k \in 1..Len(v) |-> RInt(v[k])]
VScale(v, s) == [k \in 1..Len(v) |-> RMul(v[k], s)]
VSub(a, b) == [k \in 1..Len(a) |-> RSub(a[k], b[k])]
VNeg3(v) == <<RNeg(v[1]), RNeg(v[2]), RNeg(v[3])>>

\* the armature: a root bone and a child bone
Bones == {"Root", "Hand"}
NoBone == "None"     \* bone.parent is None
BoneParent == [b \in Bones |-> IF b = "Root" THEN NoBone ELSE "Root"]

\* pyritofile's Elf hash on the armature's bone names (injective on them)
Elf(name) == IF name = "Root" THEN 1 ELSE 2

\* a joint hash no bone of the armature has
ForeignHash == 3

\* lines 54-57
BoneNameFromHash(h) == CHOOSE b \in Bones : Elf(b) = h
HashKnown(h) == \E b \in Bones : Elf(b) = h

MaxFrame == 3         \* sample times range over 0..MaxFrame

\* pyritofile quaternions are (x, y, z, w)
PX(r) == r[1]
PY(r) == r[2]
PZ(r) == r[3]
PW(r) == r[4]

\* the ANMPose stored at time t: every sample differs from the others
FullPose(t) ==
    [translate |-> <<10 * t + 1, 10 * t + 2, 10 * t + 3>>,
     rotate    |-> <<10 * t + 4, 10 * t + 5, 10 * t + 6, 10 * t + 7>>,
     scale     |-> <<2, 3, 4>>]

\* a sample without translation and scale
RotationOnlyPose(t) == [FullPose(t) EXCEPT !.translate = None, !.scale = None]

\* ANMPose(): no component set
EmptyPose == [translate |-> None, rotate |-> None, scale |-> None]

PoseKinds == {"absent", "full", "rotation"}

\* track.poses: the dict from time to ANMPose a choice of kinds stands for
PosesOf(kinds) ==
    [t \in {u \in DOMAIN kinds : kinds[u] # "absent"} |->
        IF kinds[t] = "full" THEN FullPose(t) ELSE RotationOnlyPose(t)]

PoseDicts == {PosesOf(kinds) : kinds \in [0..MaxFrame -> PoseKinds]}

Track(h, poses) == [joint_hash |-> h, poses |-> poses]

\* a track of the child bone without any sample
EmptyHandTrack == Track(Elf("Hand"), PosesOf([t \in 0..MaxFrame |-> "absent"]))

AnmFiles ==
    [duration : 0..(MaxFrame + 1),
     tracks   : {<<>>}
                \cup {<<Track(h, p)>> : h \in {1, 2, ForeignHash}, p \in PoseDicts}
                \cup {<<Track(h, p), EmptyHandTrack>> :
                         h \in {1, ForeignHash}, p \in PoseDicts}]

\* sorted(track.poses.keys())
RECURSIVE SortedTimes(_)
SortedTimes(S) ==
    IF S = {} THEN <<>>
    ELSE LET m == CHOOSE x \in S : \A y \in S : x <= y
         IN  <<m>> \o SortedTimes(S \ {m})

\* lines 129-136: the scan over sorted_times from position k on, with the
\* left_time found so far; returns <<left_time, right_time>>
NoTime == -1    \* None where a sample time may stand (times are >= 0)

RECURSIVE ScanTimes(_, _, _, _)
ScanTimes(sorted_times, fr, k, left_time) ==
    IF k > Len(sorted_times) THEN <<left_time, NoTime>>
    ELSE LET time == sorted_times[k]
             left == IF time <= fr THEN time ELSE left_time
         IN  IF time >= fr
             THEN <<left, time>>
             ELSE ScanTimes(sorted_times, fr, k + 1, left)

SelectPoseRightFirst(poses, fr) ==
    IF fr \in DOMAIN poses THEN poses[fr]
    ELSE LET lr == ScanTimes(SortedTimes(DOMAIN poses), fr, 1, NoTime)
         IN  IF lr[2] # NoTime THEN poses[lr[2]]
             ELSE IF lr[1] # NoTime THEN poses[lr[1]]
             ELSE EmptyPose

\* lines 122-147
SelectPose(poses, fr) ==
    IF fr \in DOMAIN poses THEN poses[fr]
    ELSE LET lr == ScanTimes(SortedTimes(DOMAIN poses), fr, 1, NoTime)
             left_time == lr[1]
             right_time == lr[2]
         IN  IF left_time # NoTime THEN poses[left_time]
             ELSE IF right_time # NoTime THEN poses[right_time]
             ELSE EmptyPose

\* lines 151-164: the values of the pose, with the defaults for what it lacks
PoseTranslation(pose) ==
    IF pose.translate # None THEN pose.translate ELSE <<0, 0, 0>>
PoseRotation(pose) ==
    IF pose.rotate # None
    THEN <<PW(pose.rotate), PX(pose.rotate), PY(pose.rotate), PZ(pose.rotate)>>
    ELSE <<1, 0, 0, 0>>
PoseScale(pose) ==
    IF pose.scale # None THEN pose.scale ELSE <<1, 1, 1>>

\* lines 149-223: the keyframe inserted for a pose
Keyframe(pose, is_root_bone, sf) ==
    LET translation == IF is_root_bone
                       THEN DecodeRootTranslation(PoseTranslation(pose))
                       ELSE PoseTranslation(pose)
        rotation == IF is_root_bone
                    THEN DecodeRootRotation(PoseRotation(pose))
                    ELSE PoseRotation(pose)
    IN  [location |-> VScale(RVec(translation), sf),
         rotation_quaternion |-> rotation,
         scale |-> PoseScale(pose)]

AnmIdle ==
    /\ apc = "idle" /\ anm = [duration |-> 0, tracks |-> <<>>] /\ scale_factor = <<1, 1>> /\ track_index = 0
    /\ frame = 0 /\ fcurves = <<>> /\ aresult = "NONE"

AnmInit ==
    /\ apc = "start"
    /\ anm \in AnmFiles
    /\ scale_factor \in {<<1, 100>>, <<5, 2>>}
    /\ track_index = 0
    /\ frame = 0
    /\ fcurves = <<>>
    /\ aresult = "NONE"

CurrentTrack == anm.tracks[track_index + 1]

\* lines 30-75: the file is read and the action created
AnmBegin ==
    /\ apc = "start"
    /\ apc' = "tracks"
    /\ UNCHANGED <<anm, scale_factor, track_index, frame, fcurves, aresult>>

\* lines 77-80: the track's joint is not in the armature
AnmSkipTrack ==
    /\ apc = "tracks"
    /\ track_index < Len(anm.tracks)
    /\ ~HashKnown(CurrentTrack.joint_hash)
    /\ track_index' = track_index + 1
    /\ UNCHANGED <<apc, anm, scale_factor, frame, fcurves, aresult>>

\* lines 82-117: the fcurves of the bone are created
AnmStartTrack ==
    /\ apc = "tracks"
    /\ track_index < Len(anm.tracks)
    /\ HashKnown(CurrentTrack.joint_hash)
    /\ LET bone_name == BoneNameFromHash(CurrentTrack.joint_hash)
       IN  fcurves' = [b \in DOMAIN fcurves \cup {bone_name} |->
                          IF b = bone_name THEN <<>> ELSE fcurves[b]]
    /\ frame' = 0
    /\ apc' = "frames"
    /\ UNCHANGED <<anm, scale_factor, track_index, aresult>>

\* lines 120-223: one iteration of "for frame in range(anm.duration)"
AnmFrame ==
    /\ apc = "frames"
    /\ frame < anm.duration
    /\ LET bone_name == BoneNameFromHash(CurrentTrack.joint_hash)
           is_root_bone == BoneParent[bone_name] = NoBone
           pose == SelectPose(CurrentTrack.poses, frame)
           frame_num == frame + 1
       IN  fcurves' = [fcurves EXCEPT ![bone_name] =
                          [n \in DOMAIN @ \cup {frame_num} |->
                              IF n = frame_num
                              THEN Keyframe(pose, is_root_bone, scale_factor)
                              ELSE @[n]]]
    /\ frame' = frame + 1
    /\ UNCHANGED <<apc, anm, scale_factor, track_index, aresult>>

\* lines 225-229: the frames of the track are done
AnmEndTrack ==
    /\ apc = "frames"
    /\ frame = anm.duration
    /\ track_index' = track_index + 1
    /\ apc' = "tracks"
    /\ UNCHANGED <<anm, scale_factor, frame, fcurves, aresult>>

\* lines 231-246
AnmEnd ==
    /\ apc = "tracks"
    /\ track_index = Len(anm.tracks)
    /\ apc' = "done"
    /\ aresult' = TRUE
    /\ UNCHANGED <<anm, scale_factor, track_index, frame, fcurves>>

(***************************************************************************)
(* Claims about apply_anm_to_armature_direct                               *)
(***************************************************************************)
\* the sample the documented rule picks for frame f of a track
IdentityPose ==
    [translate |-> <<0, 0, 0>>,
     rotate    |-> <<0, 0, 0, 1>>,
     scale     |-> <<1, 1, 1>>]

Below(poses, f) == {t \in DOMAIN poses : t < f}
Above(poses, f) == {t \in DOMAIN poses : t > f}
Greatest(S) == CHOOSE x \in S : \A y \in S : y <= x
Least(S) == CHOOSE x \in S : \A y \in S : x <= y

RuleSample(poses, f) ==
    IF f \in DOMAIN poses THEN poses[f]
    ELSE IF Below(poses, f) # {} THEN poses[Greatest(Below(poses, f))]
    ELSE IF Above(poses, f) # {} THEN poses[Least(Above(poses, f))]
    ELSE IdentityPose

\* the track of the file that animates bone b
TrackOf(b) ==
    anm.tracks[CHOOSE k \in 1..Len(anm.tracks) : anm.tracks[k].joint_hash = Elf(b)]

\* the tracks whose frame loop has run to its end
Finished(b) ==
    \E k \in 1..track_index : anm.tracks[k].joint_hash = Elf(b)

\* C8: every keyframe emitted for a matched track at frame f is the keyframe
\* of the sample at f, else of the sample with the greatest time below f,
\* else of the sample with the least time above f, else of the identity
\* sample; and a finished track has a keyframe for every frame
\* 0..duration-1.
C8_SampleSelection ==
    \A b \in DOMAIN fcurves :
        /\ \A n \in DOMAIN fcurves[b] :
              fcurves[b][n] = Keyframe(RuleSample(TrackOf(b).poses, n - 1),
                                       BoneParent[b] = NoBone, scale_factor)
        /\ Finished(b) => DOMAIN fcurves[b] = 1..anm.duration

\* a finished import in which some frame had no sample of its own but
\* samples on both sides, and another track had no sample at all
C8_Witness ==
    /\ apc = "done"
    /\ \E b \in DOMAIN fcurves :
          \E n \in DOMAIN fcurves[b] :
             LET poses == TrackOf(b).poses
             IN  /\ (n - 1) \notin DOMAIN poses
                 /\ Below(poses, n - 1) # {}
                 /\ Above(poses, n - 1) # {}
    /\ \E b \in DOMAIN fcurves :
          /\ DOMAIN TrackOf(b).poses = {}
          /\ fcurves[b] # <<>>

(***************************************************************************)
(* convert_skl_skn_to_gltf and convert_gltf_to_skl_skn                     *)
(* (src/io/gltf_bridge.py)                                                 *)
(***************************************************************************)
NoFile == <<>>

InfluenceSlots == 4     \* "for i in range(4)", "influences_weights[:4]"

RZero == RInt(0)

\* a Python list index: lst[i]
At(lst, i) == lst[i + 1]

\* list(range(n))
Range(n) == [k \in 1..n |-> k - 1]

\* x in lst
Contains(lst, x) == \E k \in 1..Len(lst) : lst[k] = x

RECURSIVE Concat(_)
Concat(ss) == IF ss = <<>> THEN <<>> ELSE Head(ss) \o Concat(Tail(ss))

\* lst[a:a+n] (a >= 0, n >= 0): Python clamps a slice to the list
Slice(lst, a, n) ==
    SubSeq(lst, a + 1, IF a + n < Len(lst) THEN a + n ELSE Len(lst))

\* ---- convert_skl_skn_to_gltf -------------------------------------------

\* lines 141: the joint has a parent node
HasParentNode(joints, joint_id) ==
    At(joints, joint_id).parent # -1 /\ At(joints, joint_id).parent < Len(joints)

\* lines 140-147: the children list of node parent_id after the second pass
ChildrenOf(joints, parent_id) ==
    LET n == Len(joints)
        idx == SelectIdx([k \in 1..n |-> /\ HasParentNode(joints, k - 1)
                                         /\ joints[k].parent = parent_id], 1)
    IN  [k \in 1..Len(idx) |-> idx[k] - 1]

\* lines 148-150
RootNodeIndices(joints) ==
    LET n == Len(joints)
        idx == SelectIdx([k \in 1..n |-> ~HasParentNode(joints, k - 1)], 1)
    IN  [k \in 1..Len(idx) |-> idx[k] - 1]

\* lines 166-171: the vertices in the order the submeshes list them
SubmeshVertices(skn) ==
    Concat([m \in 1..Len(skn.submeshes) |->
               Slice(skn.vertices, skn.submeshes[m].vertex_start,
                     skn.submeshes[m].vertex_count)])

\* lines 177-192: the (joint, weight) slots of one vertex
GltfSlots(vertex, influences) ==
    LET used == SelectIdx([i \in 1..InfluenceSlots |-> RLess(RZero, vertex.weights[i])], 1)
        found == [k \in 1..Len(used) |->
                    <<At(influences, vertex.influences[used[k]]), vertex.weights[used[k]]>>]
        padded == found \o [k \in 1..(InfluenceSlots - Len(found)) |-> <<0, RZero>>]
    IN  Take(padded, InfluenceSlots)

\* lines 116-380
ConvertSklSknToGltf(skl, skn, sf) ==
    LET n == Len(skl.joints)
        joint_nodes == [k \in 1..n |-> [children |-> ChildrenOf(skl.joints, k - 1),
                                        mesh |-> FALSE]]
        verts == SubmeshVertices(skn)
        slots == [v \in 1..Len(verts) |-> GltfSlots(verts[v], skl.influences)]
        mesh_node_index == n
    IN  [nodes       |-> joint_nodes \o <<[children |-> <<>>, mesh |-> TRUE]>>,
         scene_nodes |-> RootNodeIndices(skl.joints) \o <<mesh_node_index>>,
         skin_joints |-> Range(n),
         POSITION    |-> [v \in 1..Len(verts) |-> VScale(verts[v].position, sf)],
         JOINTS_0    |-> [v \in 1..Len(verts) |-> [i \in 1..InfluenceSlots |-> slots[v][i][1]]],
         WEIGHTS_0   |-> [v \in 1..Len(verts) |-> [i \in 1..InfluenceSlots |-> slots[v][i][2]]]]

\* ---- convert_gltf_to_skl_skn -------------------------------------------

InvScaleNotInverted(sf) == sf

\* line 888
InvScale(sf) == IF sf # RZero THEN RDiv(RInt(1), sf) ELSE RInt(1)

\* lines 897-899: node_to_joint as a set of (node, joint) pairs; a later
\* joint_idx overwrites an earlier one for the same node
NodeToJoint(skin_joints) ==
    {<<skin_joints[k], k - 1>> : k \in
        {k \in 1..Len(skin_joints) :
            \A m \in (k + 1)..Len(skin_joints) : skin_joints[m] # skin_joints[k]}}

NodeIsJoint(skin_joints, node_idx) ==
    \E p \in NodeToJoint(skin_joints) : p[1] = node_idx

JointOfNode(skin_joints, node_idx) ==
    (CHOOSE p \in NodeToJoint(skin_joints) : p[1] = node_idx)[2]

FindParentAmongEarlierNodes(g, node_idx) ==
    LET cands == {p \in 0..(node_idx - 1) :
                     /\ Contains(At(g.nodes, p).children, node_idx)
                     /\ NodeIsJoint(g.skin_joints, p)}
    IN  IF cands = {} THEN -1
        ELSE JointOfNode(g.skin_joints, CHOOSE p \in cands : \A q \in cands : p <= q)

\* lines 906-911: the first node that lists node_idx as a child and is a joint
FindParentJoint(g, node_idx) ==
    LET cands == {p \in 0..(Len(g.nodes) - 1) :
                     /\ Contains(At(g.nodes, p).children, node_idx)
                     /\ NodeIsJoint(g.skin_joints, p)}
    IN  IF cands = {} THEN -1
        ELSE JointOfNode(g.skin_joints, CHOOSE p \in cands : \A q \in cands : p <= q)

\* lines 956-959: sorted(list(unique_joints))
SortedUnique(joints_0) ==
    SortedTimes(UNION {{joints_0[v][i] : i \in 1..Len(joints_0[v])} : v \in 1..Len(joints_0)})

InfluenceAlwaysZero(influences, j) == 0

\* lines 964 and 994: joint_to_influence.get(int(j), 0)
JointToInfluence(influences, j) ==
    IF Contains(influences, j)
    THEN (CHOOSE k \in 1..Len(influences) : influences[k] = j) - 1
    ELSE 0

\* lines 994-1004: the 4 (influence, weight) slots of one vertex
SknSlots(joint_ids, weight_vals, influences) ==
    LET influences_weights ==
            [k \in 1..Len(joint_ids) |->
                <<JointToInfluence(influences, joint_ids[k]), weight_vals[k]>>]
        top == Take(SortByWeightDesc(influences_weights), InfluenceSlots)
    IN  top \o [k \in 1..(InfluenceSlots - Len(top)) |-> <<0, RZero>>]

\* lines 891-952: the SKL
GltfToSkl(g) ==
    [joints |-> [k \in 1..Len(g.skin_joints) |->
                    [parent |-> FindParentJoint(g, g.skin_joints[k])]],
     influences |-> SortedUnique(g.JOINTS_0)]

\* lines 887-889 and 966-1026: the SKN
GltfToSkn(g, sf) ==
    LET influences == SortedUnique(g.JOINTS_0)
        vertex_count == Len(g.POSITION)
        slots == [v \in 1..vertex_count |->
                     SknSlots(g.JOINTS_0[v], g.WEIGHTS_0[v], influences)]
    IN  [vertices |-> [v \in 1..vertex_count |->
                          [position   |-> VScale(g.POSITION[v], InvScale(sf)),
                           influences |-> [i \in 1..InfluenceSlots |-> slots[v][i][1]],
                           weights    |-> [i \in 1..InfluenceSlots |-> slots[v][i][2]]]],
         submeshes |-> <<[vertex_start |-> 0, vertex_count |-> vertex_count]>>]

\* ---- inputs -------------------------------------------------------------
MaxJoints == 3        \* most joints of a skeleton

\* joint arrays whose parents are -1 or joint indices
JointArrays ==
    UNION {[1..n -> [parent : (-1)..(n - 1)]] : n \in 1..MaxJoints}

Positions == {<<0, 0, 0>>, <<1, 2, 3>>, <<-7, 0, 5>>, <<100, -250, 1>>}

BoundVertex(p) ==
    [position |-> RVec(p), influences |-> <<0, 0, 0, 0>>,
     weights |-> <<RInt(1), RZero, RZero, RZero>>]

\* SKN files of three vertices whose submeshes are consecutive vertex ranges
SknFiles ==
    {[vertices  |-> <<BoundVertex(p), BoundVertex(<<4, 5, 6>>), BoundVertex(<<-1, -2, -3>>)>>,
      submeshes |-> sm] :
        p \in Positions,
        sm \in {<<[vertex_start |-> 0, vertex_count |-> 3]>>,
                <<[vertex_start |-> 0, vertex_count |-> 1],
                  [vertex_start |-> 1, vertex_count |-> 2]>>}}

\* the influence table of an n-joint SKL read from a file: here the joints
\* in reverse order
SklOf(joints) ==
    [joints |-> joints,
     influences |-> [k \in 1..Len(joints) |-> Len(joints) - k]]

\* weights of a glTF vertex
WeightValues == {RZero, <<1, 4>>, <<1, 2>>}

\* a glTF of one vertex skinned to a chain of MaxJoints joints
ChainGltf(joint_ids, weight_vals) ==
    [nodes       |-> [k \in 1..MaxJoints |->
                         [children |-> IF k < MaxJoints THEN <<k>> ELSE <<>>,
                          mesh |-> FALSE]]
                     \o <<[children |-> <<>>, mesh |-> TRUE]>>,
     scene_nodes |-> <<0, MaxJoints>>,
     skin_joints |-> Range(MaxJoints),
     POSITION    |-> <<RVec(<<1, 2, 3>>)>>,
     JOINTS_0    |-> <<joint_ids>>,
     WEIGHTS_0   |-> <<weight_vals>>]

GltfFiles ==
    {ChainGltf(js, ws) :
        js \in [1..InfluenceSlots -> 0..(MaxJoints - 1)],
        ws \in [1..InfluenceSlots -> WeightValues]}

SklIdle ==
    /\ kpc = "idle" /\ kscale = <<1, 1>> /\ skl_file = NoFile /\ skn_file = NoFile
    /\ gltf_file = NoFile /\ skl_back = NoFile /\ skn_back = NoFile
    /\ gltf_back = NoFile

SklInit ==
    /\ \/ /\ kpc = "skl"
          /\ kscale \in ScaleFactors
          /\ skl_file \in {SklOf(js) : js \in JointArrays}
          /\ skn_file \in SknFiles
          /\ gltf_file = NoFile
       \/ /\ kpc = "gltf"
          /\ kscale = <<1, 100>>
          /\ skl_file = NoFile
          /\ skn_file = NoFile
          /\ gltf_file \in GltfFiles
    /\ skl_back = NoFile
    /\ skn_back = NoFile
    /\ gltf_back = NoFile

\* convert_skl_skn_to_gltf(skl_path, skn_path, gltf_path, scale_factor)
SklSknToGltf ==
    \/ /\ kpc = "skl"
       /\ gltf_file' = ConvertSklSknToGltf(skl_file, skn_file, kscale)
       /\ kpc' = "skl-gltf"
       /\ UNCHANGED <<kscale, skl_file, skn_file, skl_back, skn_back, gltf_back>>
    \/ /\ kpc = "gltf-skl"
       /\ gltf_back' = ConvertSklSknToGltf(skl_back, skn_back, kscale)
       /\ kpc' = "gltf-skl-gltf"
       /\ UNCHANGED <<kscale, skl_file, skn_file, gltf_file, skl_back, skn_back>>

\* convert_gltf_to_skl_skn(gltf_path, skl_path, skn_path, scale_factor)
GltfToSklSkn ==
    /\ kpc \in {"skl-gltf", "gltf"}
    /\ skl_back' = GltfToSkl(gltf_file)
    /\ skn_back' = GltfToSkn(gltf_file, kscale)
    /\ kpc' = IF kpc = "gltf" THEN "gltf-skl" ELSE "skl-gltf-skl"
    /\ UNCHANGED <<kscale, skl_file, skn_file, gltf_file, gltf_back>>

(***************************************************************************)
(* Claims about the skeleton-mesh conversions                              *)
(***************************************************************************)
\* C1: SKL+SKN -> glTF -> SKL+SKN with the same scale factor yields the same
\* joint count, the same parent of every joint, the same vertex count and
\* the same vertex positions.
C1_RoundTripKeepsJointsAndVertices ==
    kpc = "skl-gltf-skl" =>
        /\ Len(skl_back.joints) = Len(skl_file.joints)
        /\ \A j \in 1..Len(skl_file.joints) :
              skl_back.joints[j].parent = skl_file.joints[j].parent
        /\ Len(skn_back.vertices) = Len(skn_file.vertices)
        /\ \A v \in 1..Len(skn_file.vertices) :
              skn_back.vertices[v].position = skn_file.vertices[v].position

\* a finished round trip of a skeleton in which a parent is stored after its
\* child, with a scale factor other than 1 and two submeshes
C1_Witness ==
    /\ kpc = "skl-gltf-skl"
    /\ kscale # <<1, 1>>
    /\ Len(skn_file.submeshes) = 2
    /\ \E j \in 1..Len(skl_file.joints) : skl_file.joints[j].parent > j - 1
    /\ \E j \in 1..Len(skl_back.joints) : skl_back.joints[j].parent > j - 1

\* the (joint, weight) pairs of the slots with nonzero weight, with their
\* multiplicity: pair p occurs in as many slots of a as of b
SameWeightedPairs(a, b) ==
    \A p \in {a[k] : k \in 1..Len(a)} \cup {b[k] : k \in 1..Len(b)} :
        p[2] # RZero =>
            Cardinality({k \in 1..Len(a) : a[k] = p})
                = Cardinality({k \in 1..Len(b) : b[k] = p})

\* C7: the influence table written by convert_gltf_to_skl_skn holds no joint
\* twice; the weighted slots of every vertex name, through the table, the
\* joints the glTF slots name, with the same weights; and converting back
\* gives, slot by slot, that joint and that weight.
C7_InfluenceTableConsistent ==
    /\ kpc \in {"gltf-skl", "gltf-skl-gltf"} =>
          /\ \A a, b \in 1..Len(skl_back.influences) :
                skl_back.influences[a] = skl_back.influences[b] => a = b
          /\ \A v \in 1..Len(skn_back.vertices) :
                SameWeightedPairs(
                    [i \in 1..InfluenceSlots |->
                        <<gltf_file.JOINTS_0[v][i], gltf_file.WEIGHTS_0[v][i]>>],
                    [i \in 1..InfluenceSlots |->
                        <<At(skl_back.influences, skn_back.vertices[v].influences[i]),
                          skn_back.vertices[v].weights[i]>>])
    /\ kpc = "gltf-skl-gltf" =>
          \A v \in 1..Len(skn_back.vertices) :
             \A i \in 1..InfluenceSlots :
                skn_back.vertices[v].weights[i] # RZero =>
                   /\ gltf_back.JOINTS_0[v][i]
                        = At(skl_back.influences, skn_back.vertices[v].influences[i])
                   /\ gltf_back.WEIGHTS_0[v][i] = skn_back.vertices[v].weights[i]

\* a glTF -> SKL+SKN -> glTF run of a vertex with a zero-weight slot between
\* weighted slots of different joints, none of them joint 0
C7_Witness ==
    /\ kpc = "gltf-skl-gltf"
    /\ gltf_file.WEIGHTS_0[1][1] = RZero
    /\ gltf_file.WEIGHTS_0[1][2] # RZero
    /\ gltf_file.WEIGHTS_0[1][3] # RZero
    /\ gltf_file.JOINTS_0[1][2] # gltf_file.JOINTS_0[1][3]
    /\ gltf_file.JOINTS_0[1][2] # 0
    /\ gltf_file.JOINTS_0[1][3] # 0
    /\ gltf_back.JOINTS_0[1][1] # 0

\* C21: every vertex written by convert_gltf_to_skl_skn has exactly 4
\* influence slots, and every slot whose weight is 0 holds influence-table
\* index 0.
C21_ZeroWeightSlotsHoldIndexZero ==
    skn_back # NoFile =>
        \A v \in 1..Len(skn_back.vertices) :
            /\ Len(skn_back.vertices[v].influences) = InfluenceSlots
            /\ Len(skn_back.vertices[v].weights) = InfluenceSlots
            /\ \A i \in 1..InfluenceSlots :
                  skn_back.vertices[v].weights[i] = RZero =>
                      skn_back.vertices[v].influences[i] = 0

\* the nodes that list node k as a child, and the nodes reached from the
\* nodes of S along at most n child links
ParentsOf(g, k) == {p \in 0..(Len(g.nodes) - 1) : Contains(At(g.nodes, p).children, k)}

RECURSIVE ReachedIn(_, _, _)
ReachedIn(g, S, n) ==
    IF n = 0 THEN {}
    ELSE LET below == UNION {{At(g.nodes, p).children[c] :
                                 c \in 1..Len(At(g.nodes, p).children)} : p \in S}
         IN  below \cup ReachedIn(g, below, n - 1)

\* C22: in the glTF built by convert_skl_skn_to_gltf, node p lists joint j as a
\* child exactly once when p is the parent of j, whether p < j or p > j; a
\* joint with parent -1 is a scene root; every joint is a scene root or the
\* child of exactly one node, never both; and no node is its own descendant.
C22_HierarchyIsAForest ==
    kpc = "skl-gltf" =>
        LET n == Len(skl_file.joints)
        IN  \A j \in 0..(n - 1) :
               LET p == At(skl_file.joints, j).parent
                   listed == At(gltf_file.nodes, p).children
               IN  /\ p \in 0..(n - 1) =>
                         Cardinality({c \in 1..Len(listed) : listed[c] = j}) = 1
                   /\ p = -1 => Contains(gltf_file.scene_nodes, j)
                   /\ IF Contains(gltf_file.scene_nodes, j)
                      THEN ParentsOf(gltf_file, j) = {}
                      ELSE Cardinality(ParentsOf(gltf_file, j)) = 1
                   /\ j \notin ReachedIn(gltf_file, {j}, n)

(***************************************************************************)
(* The inverse-bind transforms in convert_skl_skn_to_gltf (lines 296-326)  *)
(* and convert_gltf_to_skl_skn (lines 929-950)                             *)
(***************************************************************************)

\* structs.Quaternion(x, y, z, w): line 925 passes a glTF rotation, which is
\* [x, y, z, w], in this order, and line 132 reads .x, .y, .z, .w back into one
StructsQuaternion(a, b, c, d) == [x |-> a, y |-> b, z |-> c, w |-> d]

IdentityRotation == StructsQuaternion(RZero, RZero, RZero, RInt(1))

\* mathutils: the 3x3 rotation matrix of a unit quaternion, as rows
QuatMatrix(q) ==
    LET dbl(a, b) == RMul(RInt(2), RMul(a, b))
        one == RInt(1)
    IN  << <<RSub(one, RAdd(dbl(q.y, q.y), dbl(q.z, q.z))),
             RSub(dbl(q.x, q.y), dbl(q.z, q.w)),
             RAdd(dbl(q.x, q.z), dbl(q.y, q.w))>>,
           <<RAdd(dbl(q.x, q.y), dbl(q.z, q.w)),
             RSub(one, RAdd(dbl(q.x, q.x), dbl(q.z, q.z))),
             RSub(dbl(q.y, q.z), dbl(q.x, q.w))>>,
           <<RSub(dbl(q.x, q.z), dbl(q.y, q.w)),
             RAdd(dbl(q.y, q.z), dbl(q.x, q.w)),
             RSub(one, RAdd(dbl(q.x, q.x), dbl(q.y, q.y)))>> >>

\* Matrix.LocRotScale(loc, rot, scale), as rows: m[row][col]
LocRotScale(loc, rot, scale) ==
    LET r == QuatMatrix(rot)
    IN  [i \in 1..4 |->
           [j \in 1..4 |->
              IF i <= 3 /\ j <= 3 THEN RMul(r[i][j], scale[j])
              ELSE IF i <= 3 THEN loc[i]
              ELSE IF j = 4 THEN RInt(1) ELSE RZero]]

\* lines 315-319: "for col in range(4): for row in range(4):
\* inv_bind_list.append(ibind_mat[row][col])"
ColumnMajor(m) == [k \in 1..16 |-> m[((k - 1) % 4) + 1][((k - 1) \div 4) + 1]]

\* lines 300-321
InverseBindMatrices(joints, sf) ==
    Concat([k \in 1..Len(joints) |->
               ColumnMajor(LocRotScale(VScale(joints[k].ibind_translate, sf),
                                       [w |-> joints[k].ibind_rotate.w,
                                        x |-> joints[k].ibind_rotate.x,
                                        y |-> joints[k].ibind_rotate.y,
                                        z |-> joints[k].ibind_rotate.z],
                                       joints[k].ibind_scale))])

\* lines 937-941: reshape(len(skin.joints), 4, 4)[joint_idx], then
\* Matrix(ibm.tolist()), which takes its argument as rows
IbmMatrix(list, joint_idx) ==
    [a \in 1..4 |-> [b \in 1..4 |-> list[16 * joint_idx + 4 * (a - 1) + b]]]

\* the scales and rotations of the inverse-bind transforms used here
BindScaleValues == {RInt(1), RInt(2)}

BindRotations ==
    {IdentityRotation,
     StructsQuaternion(RInt(1), RZero, RZero, RZero),
     StructsQuaternion(Rat(3, 5), RZero, RZero, Rat(4, 5)),
     StructsQuaternion(RZero, Rat(-3, 5), RZero, Rat(4, 5))}

Conjugate(q) == StructsQuaternion(RNeg(q.x), RNeg(q.y), RNeg(q.z), q.w)

Negated(q) == StructsQuaternion(RNeg(q.x), RNeg(q.y), RNeg(q.z), RNeg(q.w))

\* the matrices of these rotations and of their inverses
RotationMatrices ==
    [q \in BindRotations \cup {Conjugate(r) : r \in BindRotations} |-> QuatMatrix(q)]

\* Matrix.decompose(): the translation is the fourth column, the scale the
\* lengths of the first three columns, the rotation that of the columns
\* divided by their lengths
Decompose(m) ==
    LET size == [j \in 1..3 |->
                    CHOOSE s \in BindScaleValues :
                       RMul(s, s) = RSum([i \in 1..3 |-> RMul(m[i][j], m[i][j])])]
        unit == [i \in 1..3 |-> [j \in 1..3 |-> RDiv(m[i][j], size[j])]]
    IN  [loc |-> <<m[1][4], m[2][4], m[3][4]>>,
         rot |-> CHOOSE q \in DOMAIN RotationMatrices : RotationMatrices[q] = unit,
         size |-> size]

\* lines 929-950: the inverse-bind fields of joint joint_idx
IbindOf(g, joint_idx, inv_scale) ==
    LET ibm_mat == IbmMatrix(g.inverse_bind_matrices, joint_idx)
        d == Decompose(ibm_mat)
    IN  [ibind_translate |-> VScale(d.loc, inv_scale),
         ibind_rotate |-> StructsQuaternion(d.rot.w, d.rot.x, d.rot.y, d.rot.z),
         ibind_scale |-> d.size]

\* the inverse-bind fields of a joint read from an SKL file
BindTranslations == {RVec(<<0, 0, 0>>), RVec(<<1, 2, 3>>), <<Rat(-5, 2), RInt(0), RInt(40)>>}

BoundJoints ==
    [ibind_translate : BindTranslations,
     ibind_rotate : BindRotations,
     ibind_scale : {<<s, s, s>> : s \in BindScaleValues}]

\* a skeleton of one joint, or of that joint and a second one
BindInit ==
    /\ kpc = "bind"
    /\ kscale \in ScaleFactors
    /\ \E j \in BoundJoints :
          skl_file \in {[joints |-> <<j>>],
                        [joints |-> <<j, [ibind_translate |-> RVec(<<1, 2, 3>>),
                                          ibind_rotate |-> IdentityRotation,
                                          ibind_scale |-> RVec(<<1, 1, 1>>)]>>]}
    /\ skn_file = NoFile
    /\ gltf_file = NoFile
    /\ skl_back = NoFile
    /\ skn_back = NoFile
    /\ gltf_back = NoFile

\* convert_skl_skn_to_gltf, lines 296-326: the skin's inverse bind matrices
WriteInverseBind ==
    /\ kpc = "bind"
    /\ gltf_file' = [skin_joints |-> Range(Len(skl_file.joints)),
                     inverse_bind_matrices |-> InverseBindMatrices(skl_file.joints, kscale)]
    /\ kpc' = "bind-gltf"
    /\ UNCHANGED <<kscale, skl_file, skn_file, skl_back, skn_back, gltf_back>>

\* convert_gltf_to_skl_skn, lines 887-889 and 929-950: the joints' ibind fields
ReadInverseBind ==
    /\ kpc = "bind-gltf"
    /\ skl_back' = [joints |-> [k \in 1..Len(gltf_file.skin_joints) |->
                                  IbindOf(gltf_file, k - 1, InvScale(kscale))]]
    /\ kpc' = "bind-gltf-skl"
    /\ UNCHANGED <<kscale, skl_file, skn_file, gltf_file, skn_back, gltf_back>>

\* the same rotation: a quaternion and its negation turn alike
SameRotation(a, b) == a = b \/ a = Negated(b)

\* C25: for every joint, the inverse-bind translation, rotation and scale that
\* convert_gltf_to_skl_skn writes equal those of the SKL the glTF was built
\* from by convert_skl_skn_to_gltf with the same scale factor.
C25_InverseBindRoundTrips ==
    kpc = "bind-gltf-skl" =>
        /\ Len(skl_back.joints) = Len(skl_file.joints)
        /\ \A j \in 1..Len(skl_file.joints) :
              /\ skl_back.joints[j].ibind_translate = skl_file.joints[j].ibind_translate
              /\ SameRotation(skl_back.joints[j].ibind_rotate,
                              skl_file.joints[j].ibind_rotate)
              /\ skl_back.joints[j].ibind_scale = skl_file.joints[j].ibind_scale

(***************************************************************************)
(* Static objects: read_scb, read_sco, create_mesh, export_scb, export_sco *)
(* (src/operators/import_scb.py, import_sco.py, export_scb.py,             *)
(* export_sco.py)                                                          *)
(*                                                                         *)
(* An SCO file is its list of lines, a line the list of its whitespace     *)
(* separated tokens; a token is its text s and, for a number, the value v  *)
(* that float() or int() gives.  An SCB file is its 8-byte magic and the   *)
(* 4-byte words that follow; a word is the number stored in it.            *)
(***************************************************************************)
NumberText == "#"

Tok(s) == [s |-> s, v |-> RZero]
Num(r) == [s |-> NumberText, v |-> r]
NumLine(vals) == [k \in 1..Len(vals) |-> Num(vals[k])]

\* int(token), float(token), and the tokens they raise ValueError on
TokInt(t) == t.v[1]
TokFloat(t) == t.v
AllNumbers(tokens) == \A k \in 1..Len(tokens) : tokens[k].s = NumberText

VAdd(a, b) == [k \in 1..Len(a) |-> RAdd(a[k], b[k])]

\* round(r) to an integer, halves to the even neighbour
RoundInt(r) ==
    LET f == r[1] \div r[2]
        twice == 2 * (r[1] - f * r[2])
    IN  IF twice > r[2] THEN f + 1
        ELSE IF twice < r[2] THEN f
        ELSE IF f % 2 = 0 THEN f ELSE f + 1

\* the value of the text f'{r:.<digits>f}'
RECURSIVE FormatFixed(_, _)
FormatFixed(r, digits) ==
    IF r[2] = 1 THEN r
    ELSE IF digits = 0 THEN RInt(RoundInt(r))
    ELSE RDiv(FormatFixed(RMul(r, RInt(10)), digits - 1), RInt(10))

CoordDigits == 4      \* ':.4f'
UvDigits == 12        \* ':.12f'

FormatVec(v, digits) == [k \in 1..Len(v) |-> FormatFixed(v[k], digits)]

\* the pair (u, 1 - v)
FlipV(uv) == <<uv[1], RSub(RInt(1), uv[2])>>

ReadTransformKeepZ(p) == <<RNeg(p[1]), p[3], p[2]>>

\* file -> Blender: (-x, -z, y)
ReadTransform(p) == <<RNeg(p[1]), RNeg(p[3]), p[2]>>

\* Blender -> file: (-x, z, -y)
WriteTransform(p) == <<RNeg(p[1]), p[3], RNeg(p[2])>>

\* "idx0 == idx1 or idx1 == idx2 or idx2 == idx0"
Degenerate(idx0, idx1, idx2) == idx0 = idx1 \/ idx1 = idx2 \/ idx2 = idx0

DefaultMaterial == "lambert69"

\* sanitize_name on the names used here, which are short and hold no
\* control bytes: only the empty name changes
SanitizeName(name) == IF name = "" THEN "unnamed" ELSE name

\* ---- the SCO text layout ------------------------------------------------
ScoMagic == "[ObjectBegin]"

\* str.split() of a name, for the names used here: the words between its spaces
Split(name) ==
    CASE name = "stone wall" -> <<"stone", "wall">>
      [] name = "dark stone" -> <<"dark", "stone">>
      [] OTHER -> <<name>>

\* a name as a reader of the text finds it: one token for each of its words
Tokens(name) == [k \in 1..Len(Split(name)) |-> Tok(Split(name)[k])]

FaceTokens == 11      \* "if len(face_line) < 11"

ScoFaceLine(face) ==
    <<Num(RInt(3))>> \o NumLine(RVec(face.idx)) \o Tokens(face.material)
        \o NumLine(<<face.uv[1][1], face.uv[1][2], face.uv[2][1],
                     face.uv[2][2], face.uv[3][1], face.uv[3][2]>>)

ScoLines(name, central, pivot, verts, faces) ==
    << <<Tok(ScoMagic)>>,
       <<Tok("Name=")>> \o Tokens(name),
       <<Tok("CentralPoint=")>> \o NumLine(central) >>
    \o (IF pivot = None THEN <<>>
        ELSE << <<Tok("PivotPoint=")>> \o NumLine(pivot) >>)
    \o << <<Tok("Verts="), Num(RInt(Len(verts)))>> >>
    \o [k \in 1..Len(verts) |-> NumLine(verts[k])]
    \o << <<Tok("Faces="), Num(RInt(Len(faces)))>> >>
    \o [k \in 1..Len(faces) |-> ScoFaceLine(faces[k])]
    \o << <<Tok("[ObjectEnd]")>> >>

\* ---- the SCB binary layout ----------------------------------------------
ScbMagic == "r3d2Mesh"
MagicBytes == 8
VersionBytes == 4
NameBytes == 128
CountBytes == 12
BBoxBytes == 24
VertexTypeBytes == 4
VectorBytes == 12
ColorBytes == 4
IndexBytes == 12
MaterialBytes == 64
UvBytes == 24
U16 == 65536          \* '<HH': two 16-bit fields in one word
DefaultFlag == 2
NoFlag == -1          \* the object has no 'lol_scb_flag'

\* material names as the bytes of the 64-byte field: the first word holds
\* the name, the rest is NUL padding
Materials == <<"lambert69", "matA", "matB", "matC", "matD", "matE">>

MaterialCode(name) ==
    IF \E k \in 1..Len(Materials) : Materials[k] = name
    THEN CHOOSE k \in 1..Len(Materials) : Materials[k] = name
    ELSE 0

MaterialWords(name) ==
    <<RInt(MaterialCode(name))>> \o [k \in 1..(MaterialBytes \div 4 - 1) |-> RZero]

\* material_bytes.split(b'\x00')[0].decode('ascii', errors='ignore')
MaterialName(word) ==
    IF word[2] = 1 /\ word[1] \in 1..Len(Materials) THEN Materials[word[1]]
    ELSE IF word = RZero THEN ""
    ELSE "?"

RMinOf(S) == CHOOSE x \in S : \A y \in S : ~RLess(y, x)
RMaxOf(S) == CHOOSE x \in S : \A y \in S : ~RLess(x, y)

BoundingBox(verts) ==
    IF verts = <<>> THEN [k \in 1..6 |-> RZero]
    ELSE [k \in 1..3 |-> RMinOf({verts[v][k] : v \in 1..Len(verts)})]
         \o [k \in 1..3 |-> RMaxOf({verts[v][k] : v \in 1..Len(verts)})]

ScbFaceWordsInterleaved(face) ==
    RVec(face.idx) \o MaterialWords(face.material)
        \o <<face.uv[1][1], face.uv[1][2], face.uv[2][1],
             face.uv[2][2], face.uv[3][1], face.uv[3][2]>>

\* export_scb lines 309-323: indices, material, then u1 u2 u3 v1 v2 v3
ScbFaceWords(face) ==
    RVec(face.idx) \o MaterialWords(face.material)
        \o <<face.uv[1][1], face.uv[2][1], face.uv[3][1],
             face.uv[1][2], face.uv[2][2], face.uv[3][2]>>

ScbWords(major, minor, vertex_type, flag, verts, central, faces) ==
    <<RInt(major + U16 * minor)>>
    \o [k \in 1..(NameBytes \div 4) |-> RZero]
    \o <<RInt(Len(verts)), RInt(Len(faces)), RInt(flag)>>
    \o BoundingBox(verts)
    \o (IF major = 3 /\ minor = 2 THEN <<RInt(vertex_type)>> ELSE <<>>)
    \o Concat(verts)
    \o (IF vertex_type = 1 THEN [k \in 1..Len(verts) |-> RInt(255)] ELSE <<>>)
    \o central
    \o Concat([k \in 1..Len(faces) |-> ScbFaceWords(faces[k])])

\* the word at byte offset b, the 3 words at b, and the size of the file
Word(f, b) == f.words[(b - MagicBytes) \div 4 + 1]
Vec3At(f, b) == <<Word(f, b), Word(f, b + 4), Word(f, b + 8)>>
Size(f) == MagicBytes + 4 * Len(f.words)

\* ---- inputs -------------------------------------------------------------
MaxFaces == 3         \* most faces a file declares

R3(x, y, z) == <<RInt(x), RInt(y), RInt(z)>>

\* stored coordinates, with at most four decimals
StoredPoints ==
    {R3(1, 2, 3), R3(0, 0, 0), R3(-4, 5, -6), <<Rat(12345, 10000), Rat(-1, 2), RInt(7)>>}

StoredCentrals == {R3(10, 20, 30), R3(0, 0, 0), <<Rat(-5, 2), Rat(1, 4), RInt(8)>>}

StoredPivots == {None, R3(0, 0, 0), R3(3, -1, 2), R3(10, 20, 30)}

OtherVertices == <<R3(4, 5, 6), R3(-1, -2, -3)>>

\* the k-th face of a file: its own material and its own UVs
FaceAt(k, idx) ==
    [idx |-> idx,
     material |-> Materials[k + 1],
     uv |-> << <<Rat(3 * k - 2, 16), Rat(k, 4)>>,
               <<Rat(3 * k - 1, 16), Rat(k, 8)>>,
               <<Rat(3 * k, 16), Rat(1, 2)>> >>]

\* index triples: two triangles and every way of being degenerate
FaceIndices ==
    {<<0, 1, 2>>, <<2, 1, 0>>, <<0, 0, 1>>, <<0, 1, 1>>, <<1, 0, 1>>, <<2, 2, 2>>}

FaceLists ==
    UNION {{[k \in 1..n |-> FaceAt(k, f[k])] : f \in [1..n -> FaceIndices]} : n \in 0..MaxFaces}

ScbLayouts ==
    {[major |-> 3, minor |-> 2, vertex_type |-> 0],
     [major |-> 3, minor |-> 2, vertex_type |-> 1],
     [major |-> 2, minor |-> 1, vertex_type |-> 0]}

ScoFile(central, pivot, verts, faces) ==
    [format |-> "SCO", lines |-> ScoLines("object", central, pivot, verts, faces)]

ScbFile(layout, flag, verts, central, faces) ==
    [format |-> "SCB", magic |-> ScbMagic,
     words |-> ScbWords(layout.major, layout.minor, layout.vertex_type, flag,
                        verts, central, faces)]

\* files of three vertices and one triangle, over the coordinates
GeometryFiles ==
    {ScoFile(c, p, <<v>> \o OtherVertices, <<FaceAt(1, <<0, 1, 2>>)>>) :
        c \in StoredCentrals, p \in StoredPivots, v \in StoredPoints}
    \cup
    {ScbFile(l, 0, <<v>> \o OtherVertices, c, <<FaceAt(1, <<0, 1, 2>>)>>) :
        l \in ScbLayouts, c \in StoredCentrals, v \in StoredPoints}

\* files of one vertex and no face: CentralPoint 10 20 30, vertex 1 2 3
ExampleSco == ScoFile(R3(10, 20, 30), None, <<R3(1, 2, 3)>>, <<>>)
ExampleScb ==
    ScbFile([major |-> 3, minor |-> 2, vertex_type |-> 0], DefaultFlag,
            <<R3(1, 2, 3)>>, R3(10, 20, 30), <<>>)

\* files of three vertices, over the face lists
FaceFiles ==
    {ScoFile(R3(10, 20, 30), None, <<R3(1, 2, 3)>> \o OtherVertices, fs) : fs \in FaceLists}
    \cup
    {ScbFile([major |-> 3, minor |-> 2, vertex_type |-> 0], DefaultFlag,
             <<R3(1, 2, 3)>> \o OtherVertices, R3(10, 20, 30), fs) : fs \in FaceLists}

\* ---- the operators ------------------------------------------------------
StaticIdle ==
    /\ opc = "idle" /\ sfile = <<>> /\ import_scale = <<1, 1>> /\ fpos = 0
    /\ loop_i = 0 /\ rd = <<>> /\ data = <<>> /\ scene = <<>>
    /\ export_scale = <<1, 1>> /\ written = <<>>

StaticInit ==
    /\ opc = "start"
    /\ \/ sfile \in GeometryFiles /\ import_scale \in ScaleFactors
       \/ sfile \in FaceFiles \cup {ExampleSco, ExampleScb} /\ import_scale = <<1, 100>>
    /\ fpos = 0
    /\ loop_i = 0
    /\ rd = <<>>
    /\ data = <<>>
    /\ scene = <<>>
    /\ export_scale = <<1, 1>>
    /\ written = <<>>

\* an exception reaches execute: report ERROR, return CANCELLED
Cancel ==
    /\ opc' = "cancelled"
    /\ UNCHANGED <<sfile, import_scale, fpos, loop_i, rd, data, scene, export_scale, written>>

\* read_scb, lines 59-82
ScbReadHeader ==
    /\ opc = "start"
    /\ sfile.format = "SCB"
    /\ LET version == Word(sfile, MagicBytes)[1]
           major == version % U16
           minor == version \div U16
           typed == major = 3 /\ minor = 2
           counts == MagicBytes + VersionBytes + NameBytes
           body == counts + CountBytes + BBoxBytes + (IF typed THEN VertexTypeBytes ELSE 0)
       IN  IF sfile.magic # ScbMagic \/ Size(sfile) < MagicBytes + VersionBytes
           THEN Cancel
           ELSE IF ~(typed \/ (major = 2 /\ minor = 1)) THEN Cancel
           ELSE IF Size(sfile) < body THEN Cancel
           ELSE /\ rd' = [vertex_count |-> Word(sfile, counts)[1],
                          face_count   |-> Word(sfile, counts + 4)[1],
                          scb_flag     |-> Word(sfile, counts + 8)[1],
                          vertex_type  |-> IF typed THEN Word(sfile, body - VertexTypeBytes)[1]
                                           ELSE 0,
                          name |-> "", central |-> None, pivot |-> None,
                          vertices |-> <<>>, indices |-> <<>>, uvs |-> <<>>,
                          material |-> ""]
                /\ fpos' = body
                /\ loop_i' = 0
                /\ opc' = "scb_verts"
                /\ UNCHANGED <<sfile, import_scale, data, scene, export_scale, written>>

\* read_scb, lines 86-92: one turn of the vertex loop
ScbReadVertex ==
    /\ opc = "scb_verts"
    /\ loop_i < rd.vertex_count
    /\ IF Size(sfile) < fpos + VectorBytes THEN Cancel
       ELSE /\ rd' = [rd EXCEPT !.vertices = Append(@, ReadTransform(Vec3At(sfile, fpos)))]
            /\ fpos' = fpos + VectorBytes
            /\ loop_i' = loop_i + 1
            /\ UNCHANGED <<opc, sfile, import_scale, data, scene, export_scale, written>>

\* read_scb, lines 94-109: the vertex colours and the central point
ScbReadCentral ==
    /\ opc = "scb_verts"
    /\ loop_i = rd.vertex_count
    /\ LET at == IF rd.vertex_type = 1 THEN fpos + ColorBytes * rd.vertex_count ELSE fpos
       IN  IF Size(sfile) < at + VectorBytes THEN Cancel
           ELSE /\ rd' = [rd EXCEPT !.central = ReadTransform(Vec3At(sfile, at))]
                /\ fpos' = at + VectorBytes
                /\ loop_i' = 0
                /\ opc' = "scb_faces"
                /\ UNCHANGED <<sfile, import_scale, data, scene, export_scale, written>>

DegenerateSkipMaterialOnly == MaterialBytes

\* lines 118-119: f.seek(64, 1); f.seek(24, 1)
DegenerateSkip == MaterialBytes + UvBytes

\* read_scb, lines 111-133: one turn of the face loop
ScbReadFace ==
    /\ opc = "scb_faces"
    /\ loop_i < rd.face_count
    /\ IF Size(sfile) < fpos + IndexBytes THEN Cancel
       ELSE LET idx0 == Word(sfile, fpos)[1]
                idx1 == Word(sfile, fpos + 4)[1]
                idx2 == Word(sfile, fpos + 8)[1]
                mat == fpos + IndexBytes
                uv == mat + MaterialBytes
            IN  IF Degenerate(idx0, idx1, idx2)
                THEN /\ fpos' = fpos + IndexBytes + DegenerateSkip
                     /\ loop_i' = loop_i + 1
                     /\ UNCHANGED <<opc, sfile, import_scale, rd, data, scene,
                                    export_scale, written>>
                ELSE IF Size(sfile) < uv + UvBytes THEN Cancel
                ELSE /\ rd' = [rd EXCEPT
                                 !.indices = @ \o <<idx0, idx1, idx2>>,
                                 !.material = MaterialName(Word(sfile, mat)),
                                 !.uvs = @ \o << <<Word(sfile, uv), Word(sfile, uv + 12)>>,
                                                 <<Word(sfile, uv + 4), Word(sfile, uv + 16)>>,
                                                 <<Word(sfile, uv + 8), Word(sfile, uv + 20)>> >>]
                     /\ fpos' = uv + UvBytes
                     /\ loop_i' = loop_i + 1
                     /\ UNCHANGED <<opc, sfile, import_scale, data, scene, export_scale, written>>

\* read_scb, lines 135-143
ScbEndRead ==
    /\ opc = "scb_faces"
    /\ loop_i = rd.face_count
    /\ data' = [name |-> "object",
                vertices |-> rd.vertices,
                indices |-> rd.indices,
                uvs |-> rd.uvs,
                material |-> IF rd.material = "" THEN DefaultMaterial ELSE rd.material,
                central |-> rd.central,
                pivot |-> None,
                scb_flag |-> rd.scb_flag]
    /\ opc' = "read"
    /\ UNCHANGED <<sfile, import_scale, fpos, loop_i, rd, scene, export_scale, written>>

\* read_sco, lines 76-92
ScoBeginRead ==
    /\ opc = "start"
    /\ sfile.format = "SCO"
    /\ IF sfile.lines = <<>> \/ sfile.lines[1] # <<Tok(ScoMagic)>> THEN Cancel
       ELSE /\ rd' = [vertex_count |-> 0, face_count |-> 0, scb_flag |-> NoFlag,
                      vertex_type |-> 0,
                      name |-> "", central |-> None, pivot |-> None,
                      vertices |-> <<>>, indices |-> <<>>, uvs |-> <<>>,
                      material |-> DefaultMaterial]
            /\ fpos' = 1
            /\ loop_i' = 0
            /\ opc' = "sco_lines"
            /\ UNCHANGED <<sfile, import_scale, data, scene, export_scale, written>>

\* read_sco, lines 93-125, 138-140 and 169: one turn of the while loop, up to
\* the entry of a vertex or face loop
ScoReadLine ==
    /\ opc = "sco_lines"
    /\ fpos < Len(sfile.lines)
    /\ LET parts == sfile.lines[fpos + 1]
           key == IF parts = <<>> THEN "" ELSE parts[1].s
           counted == key \in {"Verts=", "Faces="} /\ Len(parts) >= 2
       IN  IF key \in {"CentralPoint=", "PivotPoint="} /\ Len(parts) >= 4
                 /\ ~AllNumbers(SubSeq(parts, 2, 4))
           THEN Cancel
           ELSE IF counted /\ ~AllNumbers(SubSeq(parts, 2, 2)) THEN Cancel
           ELSE /\ rd' = IF key = "Name="
                         THEN [rd EXCEPT !.name = IF Len(parts) > 1 THEN parts[2].s ELSE ""]
                         ELSE IF key = "CentralPoint=" /\ Len(parts) >= 4
                         THEN [rd EXCEPT !.central = <<TokFloat(parts[2]), TokFloat(parts[3]),
                                                       TokFloat(parts[4])>>]
                         ELSE IF key = "PivotPoint=" /\ Len(parts) >= 4
                         THEN [rd EXCEPT !.pivot = <<TokFloat(parts[2]), TokFloat(parts[3]),
                                                     TokFloat(parts[4])>>]
                         ELSE IF key = "Verts=" /\ counted
                         THEN [rd EXCEPT !.vertex_count = TokInt(parts[2])]
                         ELSE IF key = "Faces=" /\ counted
                         THEN [rd EXCEPT !.face_count = TokInt(parts[2])]
                         ELSE rd
                /\ opc' = IF ~counted THEN "sco_lines"
                          ELSE IF key = "Verts=" THEN "sco_verts" ELSE "sco_faces"
                /\ fpos' = IF counted THEN fpos ELSE fpos + 1
                /\ loop_i' = 0
                /\ UNCHANGED <<sfile, import_scale, data, scene, export_scale, written>>

\* read_sco, lines 127-136: one turn of the vertex loop
ScoReadVertex ==
    /\ opc = "sco_verts"
    /\ loop_i < rd.vertex_count
    /\ LET index == fpos + 1
       IN  IF index >= Len(sfile.lines)
           THEN \* break, then line 169
                /\ fpos' = index + 1
                /\ opc' = "sco_lines"
                /\ UNCHANGED <<sfile, import_scale, loop_i, rd, data, scene,
                               export_scale, written>>
           ELSE LET vert_parts == sfile.lines[index + 1]
                IN  IF Len(vert_parts) >= 3 /\ ~AllNumbers(SubSeq(vert_parts, 1, 3))
                    THEN Cancel
                    ELSE /\ rd' = IF Len(vert_parts) >= 3
                                  THEN [rd EXCEPT !.vertices =
                                          Append(@, ReadTransform(<<TokFloat(vert_parts[1]),
                                                                    TokFloat(vert_parts[2]),
                                                                    TokFloat(vert_parts[3])>>))]
                                  ELSE rd
                         /\ fpos' = index
                         /\ loop_i' = loop_i + 1
                         /\ UNCHANGED <<opc, sfile, import_scale, data, scene,
                                        export_scale, written>>

\* read_sco: the vertex loop is over, then line 169
ScoEndVerts ==
    /\ opc = "sco_verts"
    /\ loop_i = rd.vertex_count
    /\ fpos' = fpos + 1
    /\ loop_i' = 0
    /\ opc' = "sco_lines"
    /\ UNCHANGED <<sfile, import_scale, rd, data, scene, export_scale, written>>

\* read_sco, lines 142-167: one turn of the face loop
ScoReadFace ==
    /\ opc = "sco_faces"
    /\ loop_i < rd.face_count
    /\ LET index == fpos + 1
       IN  IF index >= Len(sfile.lines)
           THEN \* break, then line 169
                /\ fpos' = index + 1
                /\ opc' = "sco_lines"
                /\ UNCHANGED <<sfile, import_scale, loop_i, rd, data, scene,
                               export_scale, written>>
           ELSE LET face_line == sfile.lines[index + 1]
                    idx0 == TokInt(face_line[2])
                    idx1 == TokInt(face_line[3])
                    idx2 == TokInt(face_line[4])
                    skipped == Len(face_line) < FaceTokens
                IN  IF ~skipped /\ ~AllNumbers(SubSeq(face_line, 2, 4)) THEN Cancel
                    ELSE IF ~skipped /\ ~Degenerate(idx0, idx1, idx2)
                            /\ ~AllNumbers(SubSeq(face_line, 6, 11))
                    THEN Cancel
                    ELSE /\ rd' = IF skipped \/ Degenerate(idx0, idx1, idx2) THEN rd
                                  ELSE [rd EXCEPT
                                          !.indices = @ \o <<idx0, idx1, idx2>>,
                                          !.material = IF loop_i = 0 THEN face_line[5].s ELSE @,
                                          !.uvs = @ \o
                                             << <<TokFloat(face_line[6]), TokFloat(face_line[7])>>,
                                                <<TokFloat(face_line[8]), TokFloat(face_line[9])>>,
                                                <<TokFloat(face_line[10]), TokFloat(face_line[11])>> >>]
                         /\ fpos' = index
                         /\ loop_i' = loop_i + 1
                         /\ UNCHANGED <<opc, sfile, import_scale, data, scene,
                                        export_scale, written>>

\* read_sco: the face loop is over, then line 169
ScoEndFaces ==
    /\ opc = "sco_faces"
    /\ loop_i = rd.face_count
    /\ fpos' = fpos + 1
    /\ loop_i' = 0
    /\ opc' = "sco_lines"
    /\ UNCHANGED <<sfile, import_scale, rd, data, scene, export_scale, written>>

\* read_sco, lines 171-190
ScoEndRead ==
    /\ opc = "sco_lines"
    /\ fpos >= Len(sfile.lines)
    /\ data' = [name |-> SanitizeName(rd.name),
                vertices |-> rd.vertices,
                indices |-> rd.indices,
                uvs |-> rd.uvs,
                material |-> SanitizeName(rd.material),
                central |-> IF rd.central = None THEN R3(0, 0, 0)
                            ELSE ReadTransform(rd.central),
                pivot |-> IF rd.pivot = None THEN None ELSE ReadTransform(rd.pivot),
                scb_flag |-> NoFlag]
    /\ opc' = "read"
    /\ UNCHANGED <<sfile, import_scale, fpos, loop_i, rd, scene, export_scale, written>>

MeshVertexNoOffset(v, central, sf) == VScale(v, sf)

\* create_mesh: "pos = (v - central) * scale_factor"
MeshVertex(v, central, sf) == VScale(VSub(v, central), sf)

\* create_mesh: "bone_world_pos = central - pivot"
BoneWorldPos(central, pivot) == VSub(central, pivot)

PivotBoneName == "pivot_object"

\* create_mesh of both importers; the pivot bone is import_sco's, lines 254-303
CreateMesh ==
    /\ opc = "read"
    /\ LET face_count == Len(data.indices) \div 3
           has_pivot == sfile.format = "SCO" /\ data.pivot # None
           n == Len(data.vertices)
       IN  scene' =
             [mesh |->
                [name |-> data.name,
                 location |-> VScale(data.central, import_scale),
                 vertices |-> [k \in 1..n |->
                                 MeshVertex(data.vertices[k], data.central, import_scale)],
                 faces |-> [i \in 1..face_count |-> SubSeq(data.indices, 3 * i - 2, 3 * i)],
                 uv_layer |-> [i \in 1..face_count |->
                                 [c \in 1..3 |-> FlipV(data.uvs[3 * (i - 1) + c])]],
                 material |-> data.material,
                 armature_modifier |-> has_pivot,
                 vertex_groups |->
                    IF has_pivot
                    THEN <<[name |-> PivotBoneName, weights |-> [k \in 1..n |-> RInt(1)]]>>
                    ELSE <<>>,
                 lol_scb_flag |-> data.scb_flag],
              has_armature |-> has_pivot,
              bones |-> IF has_pivot
                        THEN <<[name |-> PivotBoneName,
                                head |-> VScale(BoneWorldPos(data.central, data.pivot),
                                                import_scale)]>>
                        ELSE <<>>,
              active |-> IF has_pivot THEN "ARMATURE" ELSE "MESH"]
    /\ opc' = "imported"
    /\ UNCHANGED <<sfile, import_scale, fpos, loop_i, rd, data, export_scale, written>>

\* the user makes the mesh the active object (the importer leaves the
\* armature active); export returns CANCELLED while it is not
SelectMesh ==
    /\ opc = "imported"
    /\ scene.active # "MESH"
    /\ scene' = [scene EXCEPT !.active = "MESH"]
    /\ UNCHANGED <<opc, sfile, import_scale, fpos, loop_i, rd, data, export_scale, written>>

\* find_pivot_bone
FindPivotBone ==
    LET m == scene.mesh
        active_groups ==
            SelectIdx([g \in 1..Len(m.vertex_groups) |->
                         \E v \in 1..Len(m.vertices) :
                            RLess(RZero, m.vertex_groups[g].weights[v])], 1)
        bone_name == m.vertex_groups[active_groups[1]].name
    IN  IF ~m.armature_modifier \/ ~scene.has_armature THEN None
        ELSE IF m.vertex_groups = <<>> THEN None
        ELSE IF Len(active_groups) # 1 THEN None
        ELSE IF ~\E b \in 1..Len(scene.bones) : scene.bones[b].name = bone_name THEN None
        ELSE scene.bones[CHOOSE b \in 1..Len(scene.bones) :
                            scene.bones[b].name = bone_name].head

\* export_scb 152-171 and export_sco 164-180: eval_obj.matrix_world @ v.co,
\* scaled by 1 / scale_factor
WorldScaled(sf) ==
    [k \in 1..Len(scene.mesh.vertices) |->
        VScale(VAdd(scene.mesh.location, scene.mesh.vertices[k]), RDiv(RInt(1), sf))]

CentralScaled(sf) == VScale(scene.mesh.location, RDiv(RInt(1), sf))

PivotScbReversed(central_scb, joint_scb) == VSub(joint_scb, central_scb)

\* export_sco line 208
PivotScb(central_scb, joint_scb) == VSub(central_scb, joint_scb)

\* export_scb 226-249 and export_sco 231-254: the triangles and their UVs
ExportFaces(material_name) ==
    [i \in 1..Len(scene.mesh.faces) |->
        [idx |-> scene.mesh.faces[i],
         material |-> material_name,
         uv |-> [c \in 1..3 |-> FlipV(scene.mesh.uv_layer[i][c])]]]

\* export_sco 297-299: the UVs as the text holds them
FormatFaces(faces) ==
    [i \in 1..Len(faces) |->
        [faces[i] EXCEPT !.uv = [c \in 1..3 |-> FormatVec(faces[i].uv[c], UvDigits)]]]

\* the values of export_sco, lines 164-208
ScoValues(sf) ==
    LET pivot_bone_world == FindPivotBone
        central_scb == WriteTransform(CentralScaled(sf))
        joint_scb == IF pivot_bone_world = None THEN None
                     ELSE WriteTransform(VScale(pivot_bone_world, RDiv(RInt(1), sf)))
    IN  [format |-> "SCO",
         central_scb |-> central_scb,
         vertices |-> [k \in 1..Len(scene.mesh.vertices) |-> WriteTransform(WorldScaled(sf)[k])],
         joint_scb |-> joint_scb,
         pivot_scb |-> IF joint_scb = None THEN None ELSE PivotScb(central_scb, joint_scb)]

\* "with open(filepath, 'w') as f" and the f.write calls that follow write into
\* the target itself: all the units (lines, 4-byte words), or, when a write
\* raises, the units written before it.  The failure taken here is that of
\* the last write.
WriteOutcomes == {"complete", "partial"}

\* what the target path holds when the with block is left
Written(units, outcome) ==
    IF outcome = "complete" THEN units ELSE SubSeq(units, 1, Len(units) - 1)

\* LOLLeagueExportSCO_V4.execute
ExportSco ==
    /\ opc = "imported"
    /\ scene.active = "MESH"
    /\ \E sf \in ScaleFactors :
         LET x == ScoValues(sf)
             lines == ScoLines(scene.mesh.name,
                               FormatVec(x.central_scb, CoordDigits),
                               IF x.pivot_scb = None THEN None
                               ELSE FormatVec(x.pivot_scb, CoordDigits),
                               [k \in 1..Len(x.vertices) |->
                                   FormatVec(x.vertices[k], CoordDigits)],
                               FormatFaces(ExportFaces(scene.mesh.material)))
         IN  \E outcome \in WriteOutcomes :
             /\ export_scale' = sf
             /\ written' =
                  x @@
                  [file |-> [format |-> "SCO", lines |-> Written(lines, outcome)],
                   target |-> outcome]
             /\ opc' = IF outcome = "complete" THEN "exported" ELSE "export_cancelled"
    /\ UNCHANGED <<sfile, import_scale, fpos, loop_i, rd, data, scene>>

\* the values of export_scb, lines 152-203
ScbValues(sf) ==
    [format |-> "SCB",
     central_scb |-> WriteTransform(CentralScaled(sf)),
     vertices |-> [k \in 1..Len(scene.mesh.vertices) |-> WriteTransform(WorldScaled(sf)[k])],
     joint_scb |-> None,
     pivot_scb |-> None]

\* read_riot_scb, lines 113-139.  f.seek(n) moves to byte n of the file:
\* after the version is read at byte 8, "f.seek(128)" and "f.seek(24)" go to
\* bytes 128 and 24, and only the seeks over the vertices are relative.  A
\* read past the end of the file raises, and the handler returns None.
ReadRiotScb(f) ==
    LET version == Word(f, MagicBytes)[1]
        major == version % U16
        minor == version \div U16
        counts == NameBytes
        vertex_count == Word(f, counts)[1]
        typed == major = 3 /\ minor = 2
        vertex_type == Word(f, BBoxBytes)[1]
        at == IF typed
              THEN BBoxBytes + VertexTypeBytes + VectorBytes * vertex_count
                      + (IF vertex_type = 1 THEN ColorBytes * vertex_count ELSE 0)
              ELSE BBoxBytes + VectorBytes * vertex_count
    IN  IF Size(f) < counts + CountBytes THEN None
        ELSE IF Size(f) < at + VectorBytes THEN None
        ELSE [central |-> Vec3At(f, at), scb_flag |-> Word(f, counts + 8)[1]]

\* export_scb with riot_data read from riot_file, or None when execute found
\* no reference file
ExportScbUsing(riot_file) ==
    /\ opc = "imported"
    /\ scene.active = "MESH"
    /\ \E sf \in ScaleFactors :
         LET x == ScbValues(sf)
             riot_data == IF riot_file = None THEN None ELSE ReadRiotScb(riot_file)
             scb_flag == IF riot_data # None THEN riot_data.scb_flag
                         ELSE IF scene.mesh.lol_scb_flag # NoFlag
                         THEN scene.mesh.lol_scb_flag
                         ELSE DefaultFlag
             words == ScbWords(3, 2, 0, scb_flag, x.vertices, x.central_scb,
                               ExportFaces(scene.mesh.material))
         IN  \E outcome \in WriteOutcomes :
             /\ export_scale' = sf
             /\ written' =
                  x @@
                  [file |-> [format |-> "SCB", magic |-> ScbMagic,
                             words |-> Written(words, outcome)],
                   target |-> outcome,
                   riot |-> riot_file]
             /\ opc' = IF outcome = "complete" THEN "exported" ELSE "export_cancelled"
    /\ UNCHANGED <<sfile, import_scale, fpos, loop_i, rd, data, scene>>

\* LOLLeagueExportSCB_V4.execute, with no riot.scb next to the target
ExportScb == ExportScbUsing(None)

\* the reference files: files of Riot's, of both versions, with each flag
RiotFiles ==
    {ScbFile(l, flag, <<R3(1, 2, 3)>> \o OtherVertices, R3(10, 20, 30),
             <<FaceAt(1, <<0, 1, 2>>)>>) : l \in ScbLayouts, flag \in 0..2}

\* LOLLeagueExportSCB_V4.execute with use_riot_reference on and a riot.scb or
\* riot_<name>.scb next to the target
ExportScbWithRiot == \E riot_file \in RiotFiles : ExportScbUsing(riot_file)

(***************************************************************************)
(* Claims about static objects                                             *)
(***************************************************************************)
\* what a file stores, by its layout
ScoHasLine(f, key) ==
    \E l \in 1..Len(f.lines) : f.lines[l] # <<>> /\ f.lines[l][1].s = key

ScoLineOf(f, key) ==
    CHOOSE l \in 1..Len(f.lines) : f.lines[l] # <<>> /\ f.lines[l][1].s = key

ScoVecOf(f, key) ==
    LET parts == f.lines[ScoLineOf(f, key)]
    IN  <<parts[2].v, parts[3].v, parts[4].v>>

ScbCountsAt == MagicBytes + VersionBytes + NameBytes

ScbVerticesAt(f) ==
    ScbCountsAt + CountBytes + BBoxBytes
        + (IF Word(f, MagicBytes) = RInt(3 + U16 * 2) THEN VertexTypeBytes ELSE 0)

ScbCentralAt(f) ==
    LET n == Word(f, ScbCountsAt)[1]
        coloured == /\ Word(f, MagicBytes) = RInt(3 + U16 * 2)
                    /\ Word(f, ScbVerticesAt(f) - VertexTypeBytes) = RInt(1)
    IN  ScbVerticesAt(f) + VectorBytes * n + (IF coloured THEN ColorBytes * n ELSE 0)

ScbFacesAt(f) == ScbCentralAt(f) + VectorBytes

ScbRecordBytes == IndexBytes + MaterialBytes + UvBytes

StoredVertexCount(f) ==
    IF f.format = "SCO" THEN f.lines[ScoLineOf(f, "Verts=")][2].v[1]
    ELSE Word(f, ScbCountsAt)[1]

StoredVertex(f, k) ==
    IF f.format = "SCO"
    THEN LET parts == f.lines[ScoLineOf(f, "Verts=") + k]
         IN  <<parts[1].v, parts[2].v, parts[3].v>>
    ELSE Vec3At(f, ScbVerticesAt(f) + VectorBytes * (k - 1))

StoredCentral(f) ==
    IF f.format = "SCO" THEN ScoVecOf(f, "CentralPoint=") ELSE Vec3At(f, ScbCentralAt(f))

HasStoredPivot(f) == f.format = "SCO" /\ ScoHasLine(f, "PivotPoint=")

StoredPivot(f) == ScoVecOf(f, "PivotPoint=")

StoredFaceCount(f) ==
    IF f.format = "SCO" THEN f.lines[ScoLineOf(f, "Faces=")][2].v[1]
    ELSE Word(f, ScbCountsAt + 4)[1]

\* the k-th declared face record, read where a file of normal records has it
StoredFaceIdx(f, k) ==
    IF f.format = "SCO"
    THEN LET parts == f.lines[ScoLineOf(f, "Faces=") + k]
         IN  <<parts[2].v[1], parts[3].v[1], parts[4].v[1]>>
    ELSE LET at == ScbFacesAt(f) + ScbRecordBytes * (k - 1)
         IN  <<Word(f, at)[1], Word(f, at + 4)[1], Word(f, at + 8)[1]>>

StoredFaceUvs(f, k) ==
    IF f.format = "SCO"
    THEN LET parts == f.lines[ScoLineOf(f, "Faces=") + k]
         IN  << <<parts[6].v, parts[7].v>>, <<parts[8].v, parts[9].v>>,
                <<parts[10].v, parts[11].v>> >>
    ELSE LET at == ScbFacesAt(f) + ScbRecordBytes * (k - 1) + IndexBytes + MaterialBytes
         IN  << <<Word(f, at), Word(f, at + 12)>>, <<Word(f, at + 4), Word(f, at + 16)>>,
                <<Word(f, at + 8), Word(f, at + 20)>> >>

StoredFaceDegenerate(f, k) ==
    Degenerate(StoredFaceIdx(f, k)[1], StoredFaceIdx(f, k)[2], StoredFaceIdx(f, k)[3])

\* the declared faces among the first i that are triangles, in file order
TrianglesAmong(f, i) ==
    SelectIdx([k \in 1..i |-> ~StoredFaceDegenerate(f, k)], 1)

ReadFinished == {"read", "imported", "exported"}

\* C3: the read transform (-x,-z,y) and the write transform (-x,z,-y) undo
\* each other; read_scb and read_sco apply the first to every vertex, to the
\* central point and (SCO) to the pivot, export applies the second to every
\* vertex and to the central point, and with the same scale factor what is
\* written for each vertex, the central point and the pivot is what was stored.
C3_ReadAndWriteTransformsAreInverse ==
    /\ opc \in ReadFinished =>
          /\ Len(data.vertices) = StoredVertexCount(sfile)
          /\ \A k \in 1..Len(data.vertices) :
                /\ data.vertices[k] = ReadTransform(StoredVertex(sfile, k))
                /\ WriteTransform(data.vertices[k]) = StoredVertex(sfile, k)
          /\ data.central = ReadTransform(StoredCentral(sfile))
          /\ WriteTransform(data.central) = StoredCentral(sfile)
          /\ HasStoredPivot(sfile) =>
                /\ data.pivot = ReadTransform(StoredPivot(sfile))
                /\ WriteTransform(data.pivot) = StoredPivot(sfile)
    /\ opc = "exported" =>
          /\ Len(written.vertices) = StoredVertexCount(sfile)
          /\ \A k \in 1..Len(written.vertices) :
                /\ written.vertices[k] = WriteTransform(WorldScaled(export_scale)[k])
                /\ ReadTransform(written.vertices[k]) = WorldScaled(export_scale)[k]
          /\ written.central_scb = WriteTransform(CentralScaled(export_scale))
          /\ ReadTransform(written.central_scb) = CentralScaled(export_scale)
          /\ export_scale = import_scale =>
                /\ \A k \in 1..Len(written.vertices) :
                      /\ written.vertices[k] = StoredVertex(sfile, k)
                      /\ StoredVertex(written.file, k) = StoredVertex(sfile, k)
                /\ written.central_scb = StoredCentral(sfile)
                /\ StoredCentral(written.file) = StoredCentral(sfile)
                /\ (HasStoredPivot(sfile) /\ written.format = "SCO") =>
                      /\ written.pivot_scb = StoredPivot(sfile)
                      /\ StoredPivot(written.file) = StoredPivot(sfile)

\* an SCO with a pivot, a central point and a first vertex whose coordinates
\* all differ, imported and exported as SCO with one scale factor other than 1
C3_Witness ==
    /\ opc = "exported"
    /\ sfile.format = "SCO"
    /\ written.format = "SCO"
    /\ HasStoredPivot(sfile)
    /\ export_scale = import_scale
    /\ import_scale # <<1, 1>>
    /\ StoredVertex(sfile, 1) = <<Rat(12345, 10000), Rat(-1, 2), RInt(7)>>
    /\ StoredCentral(sfile) = R3(10, 20, 30)
    /\ StoredPivot(sfile) = R3(3, -1, 2)

\* C6: while and after the faces are read, the reader stands where i normal
\* records would have put it, has emitted exactly the non-degenerate ones of
\* the first i declared faces, in order, each with its 3 UV pairs; at the end
\* that is N - k triangles.  The files are complete, so no read fails.
C6_DegenerateFacesAreConsumed ==
    /\ opc # "cancelled"
    /\ opc = "scb_faces" => fpos = ScbFacesAt(sfile) + ScbRecordBytes * loop_i
    /\ opc = "sco_faces" => fpos = ScoLineOf(sfile, "Faces=") - 1 + loop_i
    /\ opc \in {"scb_faces", "sco_faces"} \cup ReadFinished =>
          LET seen == IF opc \in ReadFinished THEN StoredFaceCount(sfile) ELSE loop_i
              kept == TrianglesAmong(sfile, seen)
              out == IF opc \in ReadFinished THEN data ELSE rd
          IN  /\ Len(out.indices) = 3 * Len(kept)
              /\ Len(out.uvs) = 3 * Len(kept)
              /\ \A t \in 1..Len(kept) :
                    /\ SubSeq(out.indices, 3 * t - 2, 3 * t) = StoredFaceIdx(sfile, kept[t])
                    /\ SubSeq(out.uvs, 3 * t - 2, 3 * t) = StoredFaceUvs(sfile, kept[t])
    /\ opc \in ReadFinished =>
          Len(data.indices) \div 3
             = StoredFaceCount(sfile)
                 - Cardinality({k \in 1..StoredFaceCount(sfile) : StoredFaceDegenerate(sfile, k)})

\* an SCB read to its end whose first declared face is degenerate and whose
\* last one is not
C6_Witness ==
    /\ opc = "read"
    /\ sfile.format = "SCB"
    /\ StoredFaceCount(sfile) = MaxFaces
    /\ StoredFaceDegenerate(sfile, 1)
    /\ ~StoredFaceDegenerate(sfile, MaxFaces)
    /\ Len(data.indices) \in 3..(3 * (MaxFaces - 1))

\* C9: after import every mesh vertex is (T(v_stored) - T(central_stored)) *
\* scale and the object location is T(central_stored) * scale; for
\* CentralPoint 10 20 30, vertex 1 2 3 and scale 0.01 the vertex is
\* (0.09, 0.27, -0.18).
C9_ImportOffsetsByCentralThenScales ==
    opc \in {"imported", "exported"} =>
        /\ Len(scene.mesh.vertices) = StoredVertexCount(sfile)
        /\ \A k \in 1..Len(scene.mesh.vertices) :
              scene.mesh.vertices[k]
                 = VScale(VSub(ReadTransform(StoredVertex(sfile, k)),
                               ReadTransform(StoredCentral(sfile))), import_scale)
        /\ scene.mesh.location = VScale(ReadTransform(StoredCentral(sfile)), import_scale)
        /\ (/\ StoredCentral(sfile) = R3(10, 20, 30)
            /\ StoredVertex(sfile, 1) = R3(1, 2, 3)
            /\ import_scale = <<1, 100>>) =>
              scene.mesh.vertices[1] = <<Rat(9, 100), Rat(27, 100), Rat(-18, 100)>>

\* the text file of the example, imported
C9_Witness ==
    /\ opc = "imported"
    /\ sfile = ExampleSco
    /\ import_scale = <<1, 100>>
    /\ scene.mesh.vertices = << <<Rat(9, 100), Rat(27, 100), Rat(-18, 100)>> >>

\* C10: importing an SCO with a PivotPoint makes one joint at
\* (T(central) - T(pivot)) * scale and gives every vertex weight 1 for it;
\* exporting that object as SCO with the same scale factor writes
\* PivotPoint = central_stored - joint_stored, the PivotPoint of the imported
\* file, and the CentralPoint of the imported file.
C10_PivotJointRoundTrip ==
    /\ (opc \in {"imported", "exported"} /\ HasStoredPivot(sfile)) =>
          /\ scene.has_armature
          /\ Len(scene.bones) = 1
          /\ scene.bones[1].head
                = VScale(VSub(ReadTransform(StoredCentral(sfile)),
                              ReadTransform(StoredPivot(sfile))), import_scale)
          /\ Len(scene.mesh.vertex_groups) = 1
          /\ scene.mesh.vertex_groups[1].name = scene.bones[1].name
          /\ \A k \in 1..Len(scene.mesh.vertices) :
                scene.mesh.vertex_groups[1].weights[k] = RInt(1)
    /\ (opc = "exported" /\ HasStoredPivot(sfile) /\ written.format = "SCO") =>
          /\ written.pivot_scb # None
          /\ written.pivot_scb = VSub(written.central_scb, written.joint_scb)
          /\ HasStoredPivot(written.file)
          /\ export_scale = import_scale =>
                /\ written.central_scb = StoredCentral(sfile)
                /\ written.pivot_scb = StoredPivot(sfile)
                /\ StoredPivot(written.file) = StoredPivot(sfile)
                /\ StoredCentral(written.file) = StoredCentral(sfile)

\* an SCO whose pivot is neither zero nor its central point, exported as SCO
\* with the scale factor 0.01 it was imported with
C10_Witness ==
    /\ opc = "exported"
    /\ HasStoredPivot(sfile)
    /\ written.format = "SCO"
    /\ import_scale = <<1, 100>>
    /\ export_scale = <<1, 100>>
    /\ StoredPivot(sfile) = R3(3, -1, 2)
    /\ StoredCentral(sfile) = <<Rat(-5, 2), Rat(1, 4), RInt(8)>>
    /\ written.pivot_scb = R3(3, -1, 2)

(***************************************************************************)
(* The operator pipelines around lol2gltf                                  *)
(* (src/operators/export_skl_skn.py, import_skl_skn.py, export_anm.py,     *)
(* import_anm.py and the wrappers of src/io/gltf_bridge.py, lines          *)
(* 1083-1412).                                                             *)
(*                                                                         *)
(* A path is <<name, k>>: k is 0 for a path a call has once and the        *)
(* position of the action for the paths of the export-all-actions loop.    *)
(* A file is "absent", "empty" (zero bytes) or "full".  A directory is     *)
(* "absent", "bare" (it holds no .anm file), "empty" (the .anm file it     *)
(* holds has zero bytes) or "full".  Every call starts with none of its    *)
(* paths present.  os.remove raises for a path that is absent and removes  *)
(* one that is present.                                                    *)
(***************************************************************************)
MaxActions == 2

MaxBones == 256

MaxVertices == 65535

ExportMaxInfluences == 4

Lol2gltfTimeout == 60

ActionIndices == 1..MaxActions

OncePaths ==
    { "export_temp_gltf", "skn_path", "skl_path",
      "import_temp_gltf", "cached_gltf",
      "temp_gltf", "temp_output_dir", "filepath",
      "temp_gltf_export", "temp_skl", "temp_skn", "anm_folder",
      "temp_gltf_with_anm" }

LoopPaths == {"action_gltf", "action_output_dir", "dst_anm"}

Paths == (OncePaths \X {0}) \cup (LoopPaths \X ActionIndices)

Path(name) == <<name, 0>>

EmptyDisk == [p \in Paths |-> "absent"]

BoneCounts == {1, MaxBones, MaxBones + 1}

VertexCounts == {3, MaxVertices, MaxVertices + 1}

InfluenceCounts == {ExportMaxInfluences, ExportMaxInfluences + 1}

\* What a call is given; a field an operator does not read keeps this value.
NoInput ==
    [ has_armature |-> FALSE, has_mesh |-> FALSE,
      bone_count |-> 0, vertex_count |-> 0, influence_count |-> 0,
      skn_exists |-> FALSE, skl_exists |-> FALSE, anm_exists |-> FALSE,
      export_all_actions |-> FALSE, actions |-> 0, has_action |-> FALSE ]

NoCall ==
    [ wrapper |-> "none", timeout |-> 0, exit |-> "none", outs |-> <<>>,
      ok |-> FALSE, msg |-> "" ]

NoProgress == [action |-> 0, exported_count |-> 0]

\* How a run of the lol2gltf process ends: find_lol2gltf_executable returns
\* None ("noexe"), exit code 0 or another one, subprocess.TimeoutExpired,
\* FileNotFoundError from subprocess.run, or any other exception.
Exits == {"noexe", "zero", "nonzero", "timeout", "notfound", "oserror"}

Started(exit) == exit \notin {"noexe", "notfound"}

\* A process that was started leaves each of its outputs in any state, whatever
\* its exit code; one that was not started leaves them as they were.
AfterRun(exit, d, p, states) ==
    IF Started(exit) THEN {[d EXCEPT ![p] = s] : s \in states} ELSE {d}

AfterRun2(exit, d, p, q, states) ==
    IF Started(exit)
    THEN {[d EXCEPT ![p] = s, ![q] = t] : s \in states, t \in states}
    ELSE {d}

FileStates == {"absent", "empty", "full"}

DirStates == {"bare", "empty", "full"}

Failure(message) == [ok |-> FALSE, msg |-> message]

Success == [ok |-> TRUE, msg |-> ""]

\* convert_skl_skn_anm_to_gltf_with_lol2gltf; d is the disk after the run.
ConvertSklSknAnmToGltfWithLol2gltf(exit, d, gltf_path) ==
    IF exit = "noexe" THEN Failure("lol2gltf executable not found")
    ELSE IF exit = "timeout" THEN Failure("lol2gltf conversion timed out after 60 seconds")
    ELSE IF exit = "notfound" THEN Failure("lol2gltf executable not found at")
    ELSE IF exit = "oserror" THEN Failure("Failed to run lol2gltf")
    ELSE IF exit = "nonzero" THEN Failure("lol2gltf failed with return code")
    ELSE IF d[gltf_path] = "absent" THEN Failure("glTF file was not created")
    ELSE Success

\* convert_skl_skn_to_gltf_with_lol2gltf
ConvertSklSknToGltfWithLol2gltf(exit, d, gltf_path) ==
    IF exit = "noexe" THEN Failure("lol2gltf executable not found")
    ELSE IF exit = "timeout" THEN Failure("lol2gltf conversion timed out after 60 seconds")
    ELSE IF exit = "notfound" THEN Failure("lol2gltf executable not found at")
    ELSE IF exit = "oserror" THEN Failure("Failed to run lol2gltf")
    ELSE IF exit = "nonzero" THEN Failure("lol2gltf failed with return code")
    ELSE IF d[gltf_path] = "absent" THEN Failure("glTF file was not created")
    ELSE Success

\* convert_gltf_to_skl_skn_with_lol2gltf
ConvertGltfToSklSknWithLol2gltf(exit, d, skn_path, skl_path) ==
    IF exit = "noexe" THEN Failure("lol2gltf executable not found")
    ELSE IF exit = "timeout" THEN Failure("lol2gltf conversion timed out after 60 seconds")
    ELSE IF exit = "notfound" THEN Failure("lol2gltf executable not found at")
    ELSE IF exit = "oserror" THEN Failure("Failed to run lol2gltf")
    ELSE IF exit = "nonzero" THEN Failure("lol2gltf failed with return code")
    ELSE IF d[skn_path] = "absent" THEN Failure("SKN file was not created")
    ELSE IF d[skl_path] = "absent" THEN Failure("SKL file was not created")
    ELSE Success

\* The timeout branch of convert_gltf_to_anm_with_lol2gltf trusting the run.
ConvertGltfToAnmTrustingTimeout(exit, d, output_dir) ==
    IF exit = "noexe" THEN Failure("lol2gltf executable not found")
    ELSE IF exit = "notfound" THEN Failure("lol2gltf executable not found at")
    ELSE IF exit = "oserror" THEN Failure("Failed to run lol2gltf")
    ELSE IF exit = "nonzero" THEN Failure("lol2gltf failed with return code")
    ELSE IF d[output_dir] \in {"absent", "bare"} THEN Failure("No ANM files were created in")
    ELSE Success

\* convert_gltf_to_anm_with_lol2gltf: anm_files is the list of the .anm files
\* of output_dir.
ConvertGltfToAnmWithLol2gltf(exit, d, output_dir) ==
    IF exit = "noexe" THEN Failure("lol2gltf executable not found")
    ELSE IF exit = "timeout" THEN Failure("lol2gltf conversion timed out after 60 seconds")
    ELSE IF exit = "notfound" THEN Failure("lol2gltf executable not found at")
    ELSE IF exit = "oserror" THEN Failure("Failed to run lol2gltf")
    ELSE IF exit = "nonzero" THEN Failure("lol2gltf failed with return code")
    ELSE IF d[output_dir] \in {"absent", "bare"} THEN Failure("No ANM files were created in")
    ELSE Success

\* The record kept of a wrapper call: which wrapper, the timeout it gave
\* subprocess.run, how the run ended, the state of the expected outputs after
\* it, and what the wrapper returned.
CallOf(name, exit, outputs, r) ==
    [ wrapper |-> name, timeout |-> Lol2gltfTimeout, exit |-> exit,
      outs |-> outputs, ok |-> r.ok, msg |-> r.msg ]

\* A run of os.remove over files, in order, inside one try block: the first
\* absent path raises and what follows in the block is skipped.
RECURSIVE RemoveInOrder(_, _)
RemoveInOrder(d, files) ==
    IF files = <<>> THEN [disk |-> d, raised |-> FALSE]
    ELSE IF d[Head(files)] = "absent" THEN [disk |-> d, raised |-> TRUE]
    ELSE RemoveInOrder([d EXCEPT ![Head(files)] = "absent"], Tail(files))

\* try: os.remove(...) for each file; shutil.rmtree(dir, ignore_errors=True)
Cleanup(d, files, dir) ==
    LET r == RemoveInOrder(d, files)
    IN  IF r.raised THEN r.disk ELSE [r.disk EXCEPT ![dir] = "absent"]

\* bone_count > 256
TooManyBonesInclusive(bone_count) == bone_count >= MaxBones

TooManyBones(bone_count) == bone_count > MaxBones

\* vertex_count > 65535
TooManyVertices(vertex_count) == vertex_count > MaxVertices

\* invalid_vertices is non-empty: some vertex has more than 4 groups whose
\* weight is above 0.001 (influence_count is the largest such count).
HasInvalidVertices(influence_count) == influence_count > ExportMaxInfluences

PipeIdle ==
    /\ op = "idle"
    /\ ppc = "idle"
    /\ inp = NoInput
    /\ progress = NoProgress
    /\ disk = EmptyDisk
    /\ steps = <<>>
    /\ call = NoCall
    /\ result = "NONE"
    /\ reports = {}

PipeInit == PipeIdle

\* return {'CANCELLED'} or {'FINISHED'} after self.report({level}, ...)
Returns(res, level) ==
    /\ ppc' = "returned"
    /\ result' = res
    /\ reports' = reports \cup {level}

\* execute goes on, after self.report({level}, ...)
GoesOn(next, level) ==
    /\ ppc' = next
    /\ result' = result
    /\ reports' = reports \cup {level}

Step(name, ok) == [name |-> name, ok |-> ok]

\* What export_blender_to_gltf leaves at gltf_path: bpy.ops.export_scene.gltf
\* is its last step (line 744), and the file is there when it returns True;
\* a call that returns False is taken to have written nothing.
AfterExport(ok, d, p) ==
    IF ok THEN [d EXCEPT ![p] = "full"] ELSE d

(***************************************************************************)
(* LOLLeagueExportSKN_V2.execute                                           *)
(***************************************************************************)
\* lines 63-125: the selection and the three limits
ExportSknValidate ==
    /\ op = "idle"
    /\ \E arm \in BOOLEAN, mesh \in BOOLEAN, bc \in BoneCounts,
          vc \in VertexCounts, ic \in InfluenceCounts :
        /\ inp' = [NoInput EXCEPT !.has_armature = arm, !.has_mesh = mesh,
                                  !.bone_count = bc, !.vertex_count = vc,
                                  !.influence_count = ic]
        /\ IF ~mesh \/ ~arm \/ TooManyBones(bc) \/ TooManyVertices(vc)
              \/ HasInvalidVertices(ic)
           THEN Returns("CANCELLED", "ERROR")
           ELSE GoesOn("export_gltf", "INFO")
    /\ op' = "ExportSKN"
    /\ UNCHANGED <<progress, disk, steps, call>>

\* lines 158-183
ExportSknExportGltf ==
    /\ op = "ExportSKN"
    /\ ppc = "export_gltf"
    /\ \E success \in BOOLEAN :
        /\ disk' = AfterExport(success, disk, Path("export_temp_gltf"))
        /\ steps' = Append(steps, Step("export_blender_to_gltf", success))
        /\ IF ~success
           THEN Returns("CANCELLED", "ERROR")
           ELSE GoesOn("convert", "INFO")
    /\ UNCHANGED <<op, inp, progress, call>>

\* lines 185-197
ExportSknConvert ==
    /\ op = "ExportSKN"
    /\ ppc = "convert"
    /\ \E exit \in Exits :
       \E d \in AfterRun2(exit, disk, Path("skn_path"), Path("skl_path"), FileStates) :
        LET r == ConvertGltfToSklSknWithLol2gltf(exit, d, Path("skn_path"), Path("skl_path"))
        IN  /\ disk' = d
            /\ call' = CallOf("gltf2skn", exit,
                              <<d[Path("skn_path")], d[Path("skl_path")]>>, r)
            /\ steps' = Append(steps, Step("gltf2skn", r.ok))
            /\ IF ~r.ok
               THEN Returns("CANCELLED", "ERROR")
               ELSE Returns("FINISHED", "INFO")
    /\ UNCHANGED <<op, inp, progress>>

(***************************************************************************)
(* LOLLeagueImportSKN_V2.execute                                           *)
(***************************************************************************)
\* lines 47-62
ImportSknBegin ==
    /\ op = "idle"
    /\ \E skn \in BOOLEAN, skl \in BOOLEAN :
        /\ inp' = [NoInput EXCEPT !.skn_exists = skn, !.skl_exists = skl]
        /\ IF ~skn \/ ~skl
           THEN Returns("CANCELLED", "ERROR")
           ELSE GoesOn("lol2gltf", "INFO")
    /\ op' = "ImportSKN"
    /\ UNCHANGED <<progress, disk, steps, call>>

\* lines 65-69
ImportSknLol2gltf ==
    /\ op = "ImportSKN"
    /\ ppc = "lol2gltf"
    /\ \E exit \in Exits :
       \E d \in AfterRun(exit, disk, Path("import_temp_gltf"), FileStates) :
        LET r == ConvertSklSknToGltfWithLol2gltf(exit, d, Path("import_temp_gltf"))
        IN  /\ disk' = d
            /\ call' = CallOf("skn2gltf", exit, <<d[Path("import_temp_gltf")]>>, r)
            /\ steps' = Append(steps, Step("skn2gltf", r.ok))
            /\ IF ~r.ok
               THEN GoesOn("fallback", "WARNING")
               ELSE GoesOn("import_gltf", "INFO")
    /\ UNCHANGED <<op, inp, progress>>

\* lines 70-75: convert_skl_skn_to_gltf saves the file as its last step (lines
\* 369-380), so a call that returns False is taken to have written nothing
ImportSknFallback ==
    /\ op = "ImportSKN"
    /\ ppc = "fallback"
    /\ \E success \in BOOLEAN :
        /\ disk' = IF success
                   THEN [disk EXCEPT ![Path("import_temp_gltf")] = "full"]
                   ELSE disk
        /\ steps' = Append(steps, Step("convert_skl_skn_to_gltf", success))
        /\ IF ~success
           THEN Returns("CANCELLED", "ERROR")
           ELSE GoesOn("import_gltf", "INFO")
    /\ UNCHANGED <<op, inp, progress, call>>

\* lines 77-153: cache copy, import_gltf_to_blender, metadata, cleanup
ImportSknImportGltf ==
    /\ op = "ImportSKN"
    /\ ppc = "import_gltf"
    /\ \E copied \in BOOLEAN, imported \in BOOLEAN :
        LET temp == Path("import_temp_gltf")
            cached == IF copied
                      THEN [disk EXCEPT ![Path("cached_gltf")] = disk[temp]]
                      ELSE disk
        IN  /\ disk' = [cached EXCEPT ![temp] = "absent"]
            /\ IF ~imported
               THEN Returns("CANCELLED", "ERROR")
               ELSE Returns("FINISHED", "INFO")
    /\ UNCHANGED <<op, inp, progress, steps, call>>

(***************************************************************************)
(* LOLLeagueExportANM_V4.execute                                           *)
(***************************************************************************)
\* lines 66-85, 127-132 and 199-201
ExportAnmBegin ==
    /\ op = "idle"
    /\ \E arm \in BOOLEAN, mesh \in BOOLEAN, all \in BOOLEAN,
          n \in 0..MaxActions, active \in BOOLEAN :
        /\ inp' = [NoInput EXCEPT !.has_armature = arm, !.has_mesh = mesh,
                                  !.export_all_actions = all, !.actions = n,
                                  !.has_action = active]
        /\ IF ~arm \/ ~mesh THEN
               Returns("CANCELLED", "ERROR") /\ progress' = NoProgress
           ELSE IF all THEN
               IF n = 0
               THEN Returns("CANCELLED", "ERROR") /\ progress' = NoProgress
               ELSE GoesOn("action_export", "INFO")
                    /\ progress' = [action |-> 1, exported_count |-> 0]
           ELSE
               IF ~active
               THEN Returns("CANCELLED", "ERROR") /\ progress' = NoProgress
               ELSE GoesOn("export_gltf", "INFO") /\ progress' = NoProgress
    /\ op' = "ExportANM"
    /\ UNCHANGED <<disk, steps, call>>

\* continue, or the end of "for action in actions_to_export"
NextAction(count) ==
    /\ progress' = [action |-> IF progress.action < inp.actions
                               THEN progress.action + 1 ELSE 0,
                    exported_count |-> count]
    /\ ppc' = IF progress.action < inp.actions THEN "action_export" ELSE "loop_end"
    /\ result' = result

\* lines 136-148
ExportAnmActionExport ==
    /\ op = "ExportANM"
    /\ ppc = "action_export"
    /\ \E success \in BOOLEAN :
        /\ disk' = AfterExport(success, disk, <<"action_gltf", progress.action>>)
        /\ steps' = Append(steps, Step("export_blender_to_gltf", success))
        /\ IF ~success
           THEN NextAction(progress.exported_count)
                /\ reports' = reports \cup {"WARNING"}
           ELSE GoesOn("action_convert", "INFO") /\ progress' = progress
    /\ UNCHANGED <<op, inp, call>>

\* lines 150-166
ExportAnmActionConvert ==
    /\ op = "ExportANM"
    /\ ppc = "action_convert"
    /\ LET gltf == <<"action_gltf", progress.action>>
           dir == <<"action_output_dir", progress.action>>
           made == [disk EXCEPT ![dir] = "bare"]
       IN  \E exit \in Exits :
           \E d \in AfterRun(exit, made, dir, DirStates) :
            LET r == ConvertGltfToAnmWithLol2gltf(exit, d, dir)
            IN  /\ call' = CallOf("gltf2anm", exit, <<d[dir]>>, r)
                /\ steps' = Append(steps, Step("gltf2anm", r.ok))
                /\ IF ~r.ok
                   THEN /\ disk' = [d EXCEPT ![gltf] = "absent"]
                        /\ NextAction(progress.exported_count)
                        /\ reports' = reports \cup {"WARNING"}
                   ELSE /\ disk' = d
                        /\ GoesOn("action_move", "INFO")
                        /\ progress' = progress
    /\ UNCHANGED <<op, inp>>

\* lines 168-184; shutil.move raising is caught at line 253
ExportAnmActionMove ==
    /\ op = "ExportANM"
    /\ ppc = "action_move"
    /\ LET gltf == <<"action_gltf", progress.action>>
           dir == <<"action_output_dir", progress.action>>
           dst == <<"dst_anm", progress.action>>
       IN  \E moved \in BOOLEAN :
            IF disk[dir] \in {"absent", "bare"} THEN
                /\ disk' = Cleanup(disk, <<gltf>>, dir)
                /\ NextAction(progress.exported_count)
                /\ reports' = reports
            ELSE IF ~moved THEN
                /\ disk' = disk
                /\ Returns("CANCELLED", "ERROR")
                /\ progress' = progress
            ELSE
                /\ disk' = Cleanup([disk EXCEPT ![dst] = disk[dir], ![dir] = "bare"],
                                   <<gltf>>, dir)
                /\ NextAction(progress.exported_count + 1)
                /\ reports' = reports
    /\ UNCHANGED <<op, inp, steps, call>>

\* lines 186-195
ExportAnmLoopEnd ==
    /\ op = "ExportANM"
    /\ ppc = "loop_end"
    /\ IF progress.exported_count = 0
       THEN Returns("CANCELLED", "ERROR")
       ELSE Returns("FINISHED", "INFO")
    /\ UNCHANGED <<op, inp, progress, disk, steps, call>>

\* lines 203-208
ExportAnmExportGltf ==
    /\ op = "ExportANM"
    /\ ppc = "export_gltf"
    /\ \E success \in BOOLEAN :
        /\ disk' = AfterExport(success, disk, Path("temp_gltf"))
        /\ steps' = Append(steps, Step("export_blender_to_gltf", success))
        /\ IF ~success
           THEN Returns("CANCELLED", "ERROR")
           ELSE GoesOn("convert", "INFO")
    /\ UNCHANGED <<op, inp, progress, call>>

\* lines 210-228
ExportAnmConvert ==
    /\ op = "ExportANM"
    /\ ppc = "convert"
    /\ LET dir == Path("temp_output_dir")
           made == [disk EXCEPT ![dir] = "bare"]
       IN  \E exit \in Exits :
           \E d \in AfterRun(exit, made, dir, DirStates) :
            LET r == ConvertGltfToAnmWithLol2gltf(exit, d, dir)
            IN  /\ call' = CallOf("gltf2anm", exit, <<d[dir]>>, r)
                /\ steps' = Append(steps, Step("gltf2anm", r.ok))
                /\ IF ~r.ok
                   THEN /\ disk' = [d EXCEPT ![Path("temp_gltf")] = "absent"]
                        /\ Returns("CANCELLED", "ERROR")
                   ELSE /\ disk' = d
                        /\ GoesOn("move", "INFO")
    /\ UNCHANGED <<op, inp, progress>>

\* lines 230-251; shutil.move raising is caught at line 253
ExportAnmMove ==
    /\ op = "ExportANM"
    /\ ppc = "move"
    /\ LET dir == Path("temp_output_dir")
       IN  \E moved \in BOOLEAN :
            IF disk[dir] \in {"absent", "bare"} THEN
                /\ disk' = disk
                /\ Returns("CANCELLED", "ERROR")
            ELSE IF ~moved THEN
                /\ disk' = disk
                /\ Returns("CANCELLED", "ERROR")
            ELSE
                /\ disk' = Cleanup([disk EXCEPT ![Path("filepath")] = disk[dir],
                                                ![dir] = "bare"],
                                   <<Path("temp_gltf")>>, dir)
                /\ Returns("FINISHED", "INFO")
    /\ UNCHANGED <<op, inp, progress, steps, call>>

(***************************************************************************)
(* LOLLeagueImportANM_V2.execute                                           *)
(***************************************************************************)
\* lines 40-60
ImportAnmBegin ==
    /\ op = "idle"
    /\ \E arm \in BOOLEAN, mesh \in BOOLEAN, found \in BOOLEAN :
        /\ inp' = [NoInput EXCEPT !.has_armature = arm, !.has_mesh = mesh,
                                  !.anm_exists = found]
        /\ IF ~arm \/ ~mesh
           THEN Returns("CANCELLED", "ERROR")
           ELSE GoesOn("export_state", "INFO")
    /\ op' = "ImportANM"
    /\ UNCHANGED <<progress, disk, steps, call>>

\* Step 1, lines 83-92
ImportAnmExportState ==
    /\ op = "ImportANM"
    /\ ppc = "export_state"
    /\ \E success \in BOOLEAN :
        /\ disk' = AfterExport(success, disk, Path("temp_gltf_export"))
        /\ steps' = Append(steps, Step("export_blender_to_gltf", success))
        /\ IF ~success
           THEN Returns("CANCELLED", "ERROR")
           ELSE GoesOn("to_skl_skn", "INFO")
    /\ UNCHANGED <<op, inp, progress, call>>

\* Step 2, lines 94-104
ImportAnmToSklSkn ==
    /\ op = "ImportANM"
    /\ ppc = "to_skl_skn"
    /\ \E exit \in Exits :
       \E d \in AfterRun2(exit, disk, Path("temp_skn"), Path("temp_skl"), FileStates) :
        LET r == ConvertGltfToSklSknWithLol2gltf(exit, d, Path("temp_skn"), Path("temp_skl"))
        IN  /\ disk' = d
            /\ call' = CallOf("gltf2skn", exit,
                              <<d[Path("temp_skn")], d[Path("temp_skl")]>>, r)
            /\ steps' = Append(steps, Step("gltf2skn", r.ok))
            /\ IF ~r.ok
               THEN Returns("CANCELLED", "ERROR")
               ELSE GoesOn("with_anm", "INFO")
    /\ UNCHANGED <<op, inp, progress>>

\* Steps 3 and 4, lines 106-172; shutil.copy2 of a missing ANM file raises and
\* is caught at line 229
ImportAnmConvert ==
    /\ op = "ImportANM"
    /\ ppc = "with_anm"
    /\ LET folder == Path("anm_folder")
           out == Path("temp_gltf_with_anm")
       IN  IF ~inp.anm_exists THEN
               /\ disk' = [disk EXCEPT ![folder] = "bare"]
               /\ Returns("CANCELLED", "ERROR")
               /\ UNCHANGED <<steps, call>>
           ELSE
               \E exit \in Exits :
               \E d \in AfterRun(exit, [disk EXCEPT ![folder] = "full"], out, FileStates) :
                LET r == ConvertSklSknAnmToGltfWithLol2gltf(exit, d, out)
                IN  /\ call' = CallOf("skn2gltf_anm", exit, <<d[out]>>, r)
                    /\ steps' = Append(steps, Step("skn2gltf_anm", r.ok))
                    /\ IF ~r.ok
                       THEN /\ disk' = Cleanup(d, <<Path("temp_skl"), Path("temp_skn")>>,
                                               folder)
                            /\ Returns("CANCELLED", "ERROR")
                       ELSE /\ disk' = d
                            /\ GoesOn("import_gltf", "INFO")
    /\ UNCHANGED <<op, inp, progress>>

\* Step 5 and the cleanup, lines 174-227
ImportAnmImportGltf ==
    /\ op = "ImportANM"
    /\ ppc = "import_gltf"
    /\ \E imported \in BOOLEAN :
        IF ~imported THEN
            /\ disk' = disk
            /\ Returns("CANCELLED", "ERROR")
        ELSE
            /\ disk' = Cleanup(disk,
                               <<Path("temp_gltf_export"), Path("temp_skl"),
                                 Path("temp_skn"), Path("temp_gltf_with_anm")>>,
                               Path("anm_folder"))
            /\ Returns("FINISHED", "INFO")
    /\ UNCHANGED <<op, inp, progress, steps, call>>

\* execute has returned; the next call starts with none of its paths present.
PipeReturn ==
    /\ ppc = "returned"
    /\ op' = "idle"
    /\ ppc' = "idle"
    /\ inp' = NoInput
    /\ progress' = NoProgress
    /\ disk' = EmptyDisk
    /\ steps' = <<>>
    /\ call' = NoCall
    /\ result' = "NONE"
    /\ reports' = {}

(***************************************************************************)
(* Claims about the operator pipelines                                     *)
(***************************************************************************)
Returned(operator) == op = operator /\ ppc = "returned"

AllAbsent(S) == \A p \in S : disk[p] = "absent"

FailedSteps == {i \in 1..Len(steps) : ~steps[i].ok}

\* The temporary artifacts of each operator (the cache copy under
\* lol_league_v4_cache and the files the user asked for are not among them).
ExportSknTemps == {Path("export_temp_gltf")}

ImportSknTemps == {Path("import_temp_gltf")}

ExportAnmTemps ==
    {Path("temp_gltf"), Path("temp_output_dir")}
        \cup ({"action_gltf", "action_output_dir"} \X ActionIndices)

ImportAnmTemps ==
    { Path("temp_gltf_export"), Path("temp_skl"), Path("temp_skn"),
      Path("anm_folder"), Path("temp_gltf_with_anm") }

\* C11: the SKN+SKL export goes past its validation with exactly 256 bones and
\* exactly 65535 vertices (a mesh, an armature and at most 4 influences given),
\* and with more than 256 bones or more than 65535 vertices it returns
\* CANCELLED with an error report, having attempted no conversion step and
\* written neither the temporary glTF nor an SKN or SKL file.
C11_LimitsOfSknExport ==
    op = "ExportSKN" =>
        /\ (inp.bone_count > 256 \/ inp.vertex_count > 65535) =>
              /\ ppc = "returned"
              /\ result = "CANCELLED"
              /\ "ERROR" \in reports
              /\ steps = <<>>
              /\ AllAbsent({Path("export_temp_gltf"), Path("skn_path"), Path("skl_path")})
        /\ ( /\ inp.has_mesh
             /\ inp.has_armature
             /\ inp.bone_count <= 256
             /\ inp.vertex_count <= 65535
             /\ inp.influence_count <= 4 ) =>
              \/ ppc = "export_gltf"
              \/ (Len(steps) >= 1 /\ steps[1].name = "export_blender_to_gltf")

C11_Witness ==
    /\ Returned("ExportSKN")
    /\ inp.bone_count = 256
    /\ inp.vertex_count = 65535
    /\ result = "FINISHED"
    /\ disk[Path("skn_path")] = "full"

\* C12: when the ANM export returns, and whenever its export-all-actions loop
\* starts an iteration or ends, no temporary .glb and no mkdtemp directory the
\* call has created is left.
C12_AnmExportLeavesNoTemps ==
    (op = "ExportANM" /\ ppc \in {"returned", "action_export", "loop_end"}) =>
        AllAbsent(ExportAnmTemps)

\* C13: when the ANM import returns, none of its five temporary artifacts is
\* left.
C13_AnmImportLeavesNoTemps ==
    Returned("ImportANM") => AllAbsent(ImportAnmTemps)

\* C14: when the SKN+SKL import or the SKN+SKL export returns, the temporary
\* .glb of the call is gone.
C14_SknOperatorsLeaveNoTempGltf ==
    /\ Returned("ImportSKN") => AllAbsent(ImportSknTemps)
    /\ Returned("ExportSKN") => AllAbsent(ExportSknTemps)

\* C16: a wrapper returns success only for exit code 0 with every expected
\* output present and non-empty, and exit code 0 with a missing or an empty
\* output is a failure with a message.
C16_SuccessMeansNonEmptyOutputs ==
    call.wrapper # "none" =>
        /\ call.ok =>
              /\ call.exit = "zero"
              /\ \A i \in 1..Len(call.outs) : call.outs[i] = "full"
        /\ (call.exit = "zero" /\ \E i \in 1..Len(call.outs) : call.outs[i] # "full") =>
              (~call.ok /\ call.msg # "")

\* C17: a failed conversion step is the last step the call attempts, and the
\* call returns CANCELLED with an ERROR report.
C17_FailedStepAbortsPipeline ==
    /\ \A i \in FailedSteps : i = Len(steps)
    /\ (ppc = "returned" /\ FailedSteps # {}) =>
          (result = "CANCELLED" /\ "ERROR" \in reports)

\* C18: every wrapper call gives the converter a 60-second timeout, and a run
\* that timed out is returned as (False, non-empty message) whatever output
\* files it has left.
C18_TimeoutIsFailure ==
    call.wrapper # "none" =>
        /\ call.timeout = 60
        /\ call.exit = "timeout" => (~call.ok /\ call.msg # "")

C18_Witness ==
    /\ call.wrapper = "gltf2anm"
    /\ call.exit = "timeout"
    /\ call.outs = <<"full">>
    /\ ~call.ok

\* C15: when export_sco or export_scb fails after the target file has been
\* opened, the operator returns CANCELLED and the target path does not hold a
\* half-written file.
C15_FailedWriteLeavesNoPartialFile ==
    opc = "export_cancelled" => written.target # "partial"

(***************************************************************************)
(* export_blender_to_gltf: the name check and the temporary renames        *)
(* (src/io/gltf_bridge.py, lines 484-777) and the handler of               *)
(* LOLLeagueExportSKN_V2.execute (src/operators/export_skl_skn.py, lines   *)
(* 164-183).                                                               *)
(*                                                                         *)
(* A material or a bone is its position in its list; its name is a         *)
(* string.  Blender keeps the names of the bones of an armature, and of    *)
(* the materials, distinct: a name given to one that another already has   *)
(* gets the first free numeric suffix.                                     *)
(***************************************************************************)
MaxBoneNames == 3     \* most bones of the armature
MaxMaterialNames == 2 \* most materials of the mesh

\* "Gar(U+00E7)on" stands for the name with the non-ASCII letter U+00E7
GivenNames == {"Bone", "_Bone", "Bone_", "Hand", "L Arm", "Arm:L", "Gar(U+00E7)on"}

\* check_maya_name_validity, lines 509-545: the invalid characters found
InvalidChars(name) ==
    CASE name = "L Arm" -> <<"space">>
      [] name = "Arm:L" -> <<":">>
      [] name = "Gar(U+00E7)on" -> <<"U+00E7">>
      [] OTHER -> <<>>

\* sanitize_maya_name, lines 484-507: spaces and reserved characters become
\* underscores, then strip('_'); non-ASCII letters stay
SanitizeMayaName(name) ==
    CASE name = "L Arm" -> "L_Arm"
      [] name = "Arm:L" -> "Arm_L"
      [] name = "_Bone" -> "Bone"
      [] name = "Bone_" -> "Bone"
      [] OTHER -> name

\* the name Blender gives when name is assigned and the names of taken are in use
UniqueName(name, taken) ==
    IF name \notin taken THEN name
    ELSE IF name = "Bone" /\ "Bone.001" \notin taken THEN "Bone.001"
    ELSE IF name = "Bone" THEN "Bone.002"
    ELSE name

\* "x.name = name" on the i-th of the materials or bones
Renamed(list, i, name) ==
    [list EXCEPT ![i] = UniqueName(name, {list[k] : k \in (1..Len(list)) \ {i}})]

\* lines 676-684: the materials from the i-th on; st is [list, renames]
RECURSIVE SanitizeMaterials(_, _)
SanitizeMaterials(st, i) ==
    IF i > Len(st.list) THEN st
    ELSE LET sanitized_name == SanitizeMayaName(st.list[i])
         IN  IF sanitized_name # st.list[i]
             THEN SanitizeMaterials([list |-> Renamed(st.list, i, sanitized_name),
                                     renames |-> st.renames \cup {<<i, st.list[i]>>}], i + 1)
             ELSE SanitizeMaterials(st, i + 1)

\* a dict after d[key] = value: the pair takes the place of the key's pair, or
\* goes to the end
DictSet(d, key, value) ==
    IF \E k \in 1..Len(d) : d[k][1] = key
    THEN [k \in 1..Len(d) |-> IF d[k][1] = key THEN <<key, value>> ELSE d[k]]
    ELSE Append(d, <<key, value>>)

\* lines 696-704: the edit bones from the i-th on
RECURSIVE SanitizeBones(_, _)
SanitizeBones(st, i) ==
    IF i > Len(st.list) THEN st
    ELSE LET original_name == st.list[i]
             sanitized_name == SanitizeMayaName(original_name)
         IN  IF sanitized_name # original_name
             THEN SanitizeBones([list |-> Renamed(st.list, i, sanitized_name),
                                 renames |-> DictSet(st.renames, original_name,
                                                     sanitized_name)], i + 1)
             ELSE SanitizeBones(st, i + 1)

\* lines 749-753: the materials of material_renames get their stored name
RECURSIVE RestoreMaterials(_, _, _)
RestoreMaterials(list, renames, i) ==
    IF i > Len(list) THEN list
    ELSE IF \E r \in renames : r[1] = i
    THEN RestoreMaterials(Renamed(list, i, (CHOOSE r \in renames : r[1] = i)[2]),
                          renames, i + 1)
    ELSE RestoreMaterials(list, renames, i + 1)

\* line 763: {sanitized: original for original, sanitized in bone_renames.items()}
RECURSIVE SanitizedToOriginal(_)
SanitizedToOriginal(renames) ==
    IF renames = <<>> THEN <<>>
    ELSE DictSet(SanitizedToOriginal(SubSeq(renames, 1, Len(renames) - 1)),
                 renames[Len(renames)][2], renames[Len(renames)][1])

\* lines 764-768: the edit bones from the i-th on
RECURSIVE RestoreBones(_, _, _)
RestoreBones(list, sanitized_to_original, i) ==
    IF i > Len(list) THEN list
    ELSE IF \E k \in 1..Len(sanitized_to_original) : sanitized_to_original[k][1] = list[i]
    THEN LET original_name ==
                 sanitized_to_original[CHOOSE k \in 1..Len(sanitized_to_original) :
                                          sanitized_to_original[k][1] = list[i]][2]
         IN  RestoreBones(Renamed(list, i, original_name), sanitized_to_original, i + 1)
    ELSE RestoreBones(list, sanitized_to_original, i + 1)

\* lists of distinct names
DistinctNames(n) ==
    UNION {{s \in [1..m -> GivenNames] : \A a, b \in 1..m : s[a] = s[b] => a = b} : m \in 1..n}

NoOut == [success |-> FALSE, raised |-> "none", console |-> "none",
          reports |-> {}, result |-> "NONE"]

GltfIdle ==
    /\ gpc = "idle"
    /\ names = [materials |-> <<>>, bones |-> <<>>]
    /\ original = [materials |-> <<>>, bones |-> <<>>]
    /\ material_renames = {}
    /\ bone_renames = <<>>
    /\ gltf_out = NoOut

\* execute has reached its call of export_blender_to_gltf (line 165)
GltfInit ==
    /\ gpc = "check"
    /\ names \in [materials : DistinctNames(MaxMaterialNames),
                  bones : DistinctNames(MaxBoneNames)]
    /\ original = names
    /\ material_renames = {}
    /\ bone_renames = <<>>
    /\ gltf_out = NoOut

HasInvalidNames(list) == \E k \in 1..Len(list) : InvalidChars(list[k]) # <<>>

\* lines 773-777: "except Exception as e" of the function's outer try
CaughtAsFalse(message) ==
    gltf_out' = [gltf_out EXCEPT !.success = FALSE, !.console = message]

\* lines 631-671: the name check; its ValueError is raised inside the outer try
CheckNames ==
    /\ gpc = "check"
    /\ IF HasInvalidNames(names.materials) \/ HasInvalidNames(names.bones)
       THEN /\ CaughtAsFalse("names")
            /\ gpc' = "returned"
       ELSE /\ gpc' = "sanitize"
            /\ UNCHANGED gltf_out
    /\ UNCHANGED <<names, original, material_renames, bone_renames>>

\* lines 673-709: the temporary renames
SanitizeNames ==
    /\ gpc = "sanitize"
    /\ LET m == SanitizeMaterials([list |-> names.materials, renames |-> {}], 1)
           b == SanitizeBones([list |-> names.bones, renames |-> <<>>], 1)
       IN  /\ names' = [materials |-> m.list, bones |-> b.list]
           /\ material_renames' = m.renames
           /\ bone_renames' = b.renames
    /\ gpc' = "export"
    /\ UNCHANGED <<original, gltf_out>>

\* lines 717-771: bpy.ops.export_scene.gltf returns or raises, then the
\* finally block
ExportGltf ==
    /\ gpc = "export"
    /\ \E exported \in BOOLEAN :
          IF exported
          THEN gltf_out' = [gltf_out EXCEPT !.success = TRUE]
          ELSE CaughtAsFalse("export")
    /\ names' = [materials |-> RestoreMaterials(names.materials, material_renames, 1),
                 bones |-> IF bone_renames # <<>>
                           THEN RestoreBones(names.bones,
                                             SanitizedToOriginal(bone_renames), 1)
                           ELSE names.bones]
    /\ gpc' = "returned"
    /\ UNCHANGED <<original, material_renames, bone_renames>>

\* LOLLeagueExportSKN_V2.execute, lines 164-183
ExportSknAfterGltf ==
    /\ gpc = "returned"
    /\ gltf_out' =
          IF gltf_out.raised = "ValueError"
          THEN [gltf_out EXCEPT !.reports = {"names"}, !.result = "CANCELLED"]
          ELSE IF ~gltf_out.success
          THEN [gltf_out EXCEPT !.reports = {"Failed to export to glTF"},
                                !.result = "CANCELLED"]
          ELSE [gltf_out EXCEPT !.result = "CONTINUES"]
    /\ gpc' = "done"
    /\ UNCHANGED <<names, original, material_renames, bone_renames>>

(***************************************************************************)
(* Claims about export_blender_to_gltf                                     *)
(***************************************************************************)
\* C23: when a bone or material name contains a space, a reserved character
\* or a non-ASCII character, SKN+SKL export returns CANCELLED and the
\* name-validation message reaches the user through execute's reports.
C23_NameMessageReachesUser ==
    /\ gpc = "done"
    /\ HasInvalidNames(original.materials) \/ HasInvalidNames(original.bones)
    => /\ gltf_out.result = "CANCELLED"
       /\ "names" \in gltf_out.reports

\* C24: when export_blender_to_gltf returns, after a successful export or
\* after a failure, every material and every bone has the name it had before
\* the call.
C24_NamesAreRestored ==
    gpc \in {"returned", "done"} => names = original

(***************************************************************************)
(* Truncated static-object files                                           *)
(***************************************************************************)
\* the file without what follows its k-th line, without its l-th line, and
\* without what follows its n-th byte
CutLines(f, k) == [f EXCEPT !.lines = SubSeq(@, 1, k)]
DropLine(f, l) == [f EXCEPT !.lines = SubSeq(@, 1, l - 1) \o SubSeq(@, l + 1, Len(@))]
CutBytes(f, n) == [f EXCEPT !.words = SubSeq(@, 1, (n - MagicBytes) \div 4)]

\* two faces each, a triangle or a degenerate face
CutFaceLists ==
    {<<FaceAt(1, a), FaceAt(2, b)>> : a, b \in {<<0, 1, 2>>, <<0, 0, 1>>}}

WholeScoFiles ==
    {ScoFile(R3(10, 20, 30), None, <<R3(1, 2, 3)>> \o OtherVertices, fs) : fs \in CutFaceLists}

WholeScbFiles ==
    {ScbFile(l, DefaultFlag, <<R3(1, 2, 3)>> \o OtherVertices, R3(10, 20, 30), fs) :
        l \in ScbLayouts, fs \in CutFaceLists}

\* an SCO file cut after its "Verts=" line, inside its vertices, after its
\* "Faces=" line or after its first face, and one that lost a face line
TruncatedScoFiles ==
    LET verts(f) == ScoLineOf(f, "Verts=")
        faces(f) == ScoLineOf(f, "Faces=")
    IN  UNION {{CutLines(f, k) : k \in (verts(f)..(verts(f) + 2)) \cup (faces(f)..(faces(f) + 1))}
               \cup {DropLine(f, l) : l \in (faces(f) + 1)..(faces(f) + 2)} :
               f \in WholeScoFiles}

\* an SCB file cut inside its vertices, inside or after its central point, and
\* inside or after each part of its two face records
TruncatedScbFiles ==
    LET first(f) == ScbFacesAt(f)
        second(f) == ScbFacesAt(f) + ScbRecordBytes
    IN  UNION {{CutBytes(f, n) :
                    n \in {ScbVerticesAt(f) + VectorBytes, ScbCentralAt(f), ScbCentralAt(f) + 4,
                           first(f), first(f) + IndexBytes, first(f) + IndexBytes + MaterialBytes,
                           second(f), second(f) + 4, second(f) + IndexBytes,
                           second(f) + IndexBytes + MaterialBytes, Size(f) - 4}} :
               f \in WholeScbFiles}

TruncatedFiles == TruncatedScoFiles \cup TruncatedScbFiles

\* the vertex or face lines that follow the count line of an SCO file
ScoDataLines(f, key) ==
    LET l == ScoLineOf(f, key)
        data_line(k) == k <= Len(f.lines) /\ f.lines[k] # <<>> /\ f.lines[k][1].s = NumberText
    IN  Cardinality({n \in 1..(Len(f.lines) - l) : \A k \in (l + 1)..(l + n) : data_line(k)})

\* the declared vertex or face count exceeds the data present
Truncated(f) ==
    IF f.format = "SCO"
    THEN \E key \in {"Verts=", "Faces="} :
            /\ ScoHasLine(f, key)
            /\ TokInt(f.lines[ScoLineOf(f, key)][2]) > ScoDataLines(f, key)
    ELSE Size(f) < ScbFacesAt(f) + ScbRecordBytes * Word(f, ScbCountsAt + 4)[1]

TruncatedInit ==
    /\ opc = "start"
    /\ sfile \in TruncatedFiles
    /\ import_scale = <<1, 100>>
    /\ fpos = 0
    /\ loop_i = 0
    /\ rd = <<>>
    /\ data = <<>>
    /\ scene = <<>>
    /\ export_scale = <<1, 1>>
    /\ written = <<>>

\* C19: reading a static-object file whose declared vertex or face count
\* exceeds the data present fails: the import is cancelled, so it never ends
\* its read and creates no mesh object.
C19_TruncatedFileIsRejected ==
    Truncated(sfile) => opc \notin {"read", "imported"} /\ scene = <<>>

(***************************************************************************)
(* Objects named by the user, exported to SCO and read back                *)
(***************************************************************************)
\* object and material names as Blender accepts them
ObjectNames == {"object", "wall", "stone wall"}
MaterialNames == {DefaultMaterial, "matA", "dark stone"}

\* meshes of three vertices and up to two triangles, each with its own UVs
NamedFaceLists ==
    UNION {[1..n -> {<<0, 1, 2>>, <<2, 1, 0>>}] : n \in 0..2}

NamedScene(name, material, faces) ==
    [mesh |->
        [name |-> name,
         location |-> R3(0, 0, 0),
         vertices |-> <<R3(1, 2, 3)>> \o OtherVertices,
         faces |-> faces,
         uv_layer |-> [i \in 1..Len(faces) |-> FaceAt(i, faces[i]).uv],
         material |-> material,
         armature_modifier |-> FALSE,
         vertex_groups |-> <<>>,
         lol_scb_flag |-> NoFlag],
     has_armature |-> FALSE,
     bones |-> <<>>,
     active |-> "MESH"]

\* the mesh is in the scene and active, nothing has been exported
NamedInit ==
    /\ opc = "imported"
    /\ sfile = ExampleSco
    /\ import_scale = <<1, 100>>
    /\ fpos = 0
    /\ loop_i = 0
    /\ rd = <<>>
    /\ data = <<>>
    /\ scene \in {NamedScene(n, m, fs) :
                    n \in ObjectNames, m \in MaterialNames, fs \in NamedFaceLists}
    /\ export_scale = <<1, 1>>
    /\ written = <<>>

\* the import operator of its format is called on the file the export has
\* written
ReadBack ==
    /\ opc = "exported"
    /\ sfile' = written.file
    /\ opc' = "start"
    /\ fpos' = 0
    /\ loop_i' = 0
    /\ rd' = <<>>
    /\ data' = <<>>
    /\ UNCHANGED <<import_scale, scene, export_scale, written>>

\* the indices and the UVs export_sco wrote, in the order read_sco returns them
WrittenIndices ==
    Concat([i \in 1..Len(scene.mesh.faces) |-> scene.mesh.faces[i]])

WrittenUvs ==
    Concat([i \in 1..Len(scene.mesh.faces) |->
                FormatFaces(ExportFaces(scene.mesh.material))[i].uv])

ReadingBack == written # <<>> /\ sfile = written.file

\* C20: read_sco of a file export_sco has written parses every face line and
\* returns the name, the material, the indices and the UVs that were written.
C20_WrittenScoReadsBack ==
    ReadingBack =>
        /\ opc # "cancelled"
        /\ opc = "read" =>
              /\ data.name = scene.mesh.name
              /\ data.indices = WrittenIndices
              /\ data.uvs = WrittenUvs
              /\ scene.mesh.faces # <<>> => data.material = scene.mesh.material

(***************************************************************************)
(* Objects exported to SCB, with and without a reference file, and read    *)
(* back                                                                    *)
(***************************************************************************)
\* a mesh with its origin away from the world's, with or without the custom
\* property 'lol_scb_flag'
ScbScene(material, faces, location, flag) ==
    LET s == NamedScene("object", material, faces)
    IN  [s EXCEPT !.mesh.location = location, !.mesh.lol_scb_flag = flag]

ScbSceneInit ==
    /\ opc = "imported"
    /\ sfile = ExampleScb
    /\ import_scale = <<1, 100>>
    /\ fpos = 0
    /\ loop_i = 0
    /\ rd = <<>>
    /\ data = <<>>
    /\ scene \in {ScbScene(m, fs, l, flag) :
                    m \in {Materials[1], Materials[2]}, fs \in NamedFaceLists,
                    l \in {R3(0, 0, 0), R3(2, -4, 6)}, flag \in {NoFlag, 0, 1}}
    /\ export_scale = <<1, 1>>
    /\ written = <<>>

\* the flag field and the central point of a whole SCB file
ScbFlagOf(f) == Word(f, ScbCountsAt + 8)[1]
ScbCentralOf(f) == Vec3At(f, ScbCentralAt(f))

\* C26: with a reference file next to the target, the flag export_scb writes
\* is the flag field of the reference file and the central point it writes
\* is the reference file's central point.
C26_RiotReferenceIsPreserved ==
    /\ written # <<>>
    /\ written.format = "SCB"
    /\ written.target = "complete"
    /\ written.riot # None
    => /\ ScbFlagOf(written.file) = ScbFlagOf(written.riot)
       /\ ScbCentralOf(written.file) = ScbCentralOf(written.riot)

\* the UVs export_scb wrote, in the order read_scb returns them
WrittenScbUvs ==
    Concat([i \in 1..Len(scene.mesh.faces) |-> ExportFaces(scene.mesh.material)[i].uv])

\* C27: read_scb of a file export_scb has written does not fail, ends at the
\* end of the file, and returns the vertices, the central point, the
\* indices, the UVs, the flag and the material name that were written.
C27_WrittenScbReadsBack ==
    ReadingBack /\ written.format = "SCB" =>
        /\ opc # "cancelled"
        /\ opc = "read" =>
              /\ fpos = Size(sfile)
              /\ data.vertices = [k \in 1..Len(written.vertices) |->
                                     ReadTransform(written.vertices[k])]
              /\ data.central = ReadTransform(written.central_scb)
              /\ data.indices = WrittenIndices
              /\ data.uvs = WrittenScbUvs
              /\ data.scb_flag = ScbFlagOf(written.file)
              /\ scene.mesh.faces # <<>> => data.material = scene.mesh.material

\* a read that has ended on a written file of two triangles, away from the
\* origin, with the flag of the object's custom property
C27_Witness ==
    /\ ReadingBack
    /\ written.format = "SCB"
    /\ opc = "read"
    /\ Len(data.indices) = 6
    /\ data.material = Materials[2]
    /\ data.scb_flag = 1
    /\ data.central # R3(0, 0, 0)
    /\ export_scale # <<1, 1>>

(***************************************************************************)
(* The scene of the ANM operators: the objects of bpy.data.objects, the    *)
(* scale of skinned_mesh_obj and the armature's active action              *)
(* (src/operators/import_anm.py, src/operators/export_anm.py)              *)
(***************************************************************************)
NoBlend ==
    [ objects |-> {}, scale |-> None, action |-> 0,
      original_scale |-> None, original_action |-> 0,
      before |-> [objects |-> {}, scale |-> None, action |-> 0] ]

BlendIdle == blend = NoBlend

\* scales of the object export_anm rescales: the 0.1 of the importer, 1.0, a
\* user's own scale, and one with a zero and a component below 0.0001
SceneScales ==
    { <<<<1, 10>>, <<1, 10>>, <<1, 10>>>>, R3(1, 1, 1),
      <<<<1, 2>>, RInt(3), RInt(-1)>>, <<RInt(0), <<1, 20000>>, RInt(2)>> }

\* The scene when execute is called: an armature and a mesh parented to it
\* (either may be missing), the skinned_mesh parent of the armature or none,
\* and the active action (0: the armature has no action).
BlendScenes ==
    { [ NoBlend EXCEPT !.objects = os, !.scale = s, !.action = a,
                       !.before = [objects |-> os, scale |-> s, action |-> a] ] :
        os \in { {"armature", "mesh", "skinned_mesh"}, {"armature", "mesh"},
                 {"armature"}, {"mesh"} },
        s \in SceneScales, a \in 0..MaxActions }

BlendInit == blend \in BlendScenes

\* what execute is given is what the scene holds
InputOfScene ==
    /\ inp'.has_armature = ("armature" \in blend.objects)
    /\ inp'.has_mesh = ("mesh" \in blend.objects)
    /\ inp'.has_action = (blend.action # 0)
    /\ inp'.export_all_actions => blend.action <= inp'.actions

\* export_anm.py lines 106-110: 1.0 / c if abs(c) > 0.0001 else 1.0
RestoreScale(s) ==
    [k \in 1..3 |->
        IF RLess(<<1, 10000>>, s[k]) \/ RLess(s[k], <<-1, 10000>>)
        THEN RDiv(RInt(1), s[k]) ELSE RInt(1)]

\* export_anm.py lines 91-112 and 124: skinned_mesh_obj is the armature's
\* parent, or else the parent of the mesh, which is the armature; its scale
\* is copied and replaced, and the action is stored
EnterTry(b) ==
    [b EXCEPT !.original_scale = b.scale, !.scale = RestoreScale(b.scale),
              !.original_action = b.action]

\* export_anm.py lines 260-264: "if skinned_mesh_obj and original_scale"; a
\* mathutils.Vector of three components is true
Finally(b) ==
    IF b.original_scale # None THEN [b EXCEPT !.scale = b.original_scale] ELSE b

\* the finally block runs when execute leaves the try block
LeavingTry(b) == IF ppc' = "returned" THEN Finally(b) ELSE b

\* export_anm.py lines 66-133 and 198-201
ExportAnmBeginScene ==
    /\ ExportAnmBegin
    /\ InputOfScene
    /\ blend' = IF ~inp'.has_armature \/ ~inp'.has_mesh THEN blend
                ELSE LeavingTry(EnterTry(blend))

\* export_anm.py lines 130-148: animation_data.action = action, then the export
ExportAnmActionExportScene ==
    /\ ExportAnmActionExport
    /\ blend' = [blend EXCEPT !.action = progress.action]

ExportAnmActionConvertScene ==
    /\ ExportAnmActionConvert
    /\ blend' = blend

\* export_anm.py lines 168-184; shutil.move raising leaves the loop for the
\* handler of line 253
ExportAnmActionMoveScene ==
    /\ ExportAnmActionMove
    /\ blend' = LeavingTry(blend)

\* export_anm.py lines 186-195: "Restore original action"
ExportAnmLoopEndScene ==
    /\ ExportAnmLoopEnd
    /\ blend' = LeavingTry([blend EXCEPT !.action = blend.original_action])

ExportAnmExportGltfScene ==
    /\ ExportAnmExportGltf
    /\ blend' = LeavingTry(blend)

ExportAnmConvertScene ==
    /\ ExportAnmConvert
    /\ blend' = LeavingTry(blend)

ExportAnmMoveScene ==
    /\ ExportAnmMove
    /\ blend' = LeavingTry(blend)

\* import_anm.py lines 39-79
ImportAnmBeginScene ==
    /\ ImportAnmBegin
    /\ InputOfScene
    /\ blend' = blend

ImportAnmExportStateScene ==
    /\ ImportAnmExportState
    /\ blend' = blend

ImportAnmToSklSknScene ==
    /\ ImportAnmToSklSkn
    /\ blend' = blend

\* import_anm.py lines 117-120: bpy.data.objects.remove of the old armature
\* and the old mesh, before the ANM is copied and lol2gltf is run
ImportAnmConvertScene ==
    /\ ImportAnmConvert
    /\ blend' = [blend EXCEPT !.objects = @ \ {"armature", "mesh"}]

\* import_anm.py lines 174-181: import_gltf_to_blender makes the new objects
ImportAnmImportGltfScene ==
    /\ ImportAnmImportGltf
    /\ blend' = IF result' = "FINISHED"
                THEN [blend EXCEPT !.objects = @ \cup {"new_armature", "new_mesh"}]
                ELSE blend

\* C28: when LOLLeagueImportANM_V2.execute returns CANCELLED, the armature and
\* the mesh that were selected before the call are still in the scene: they
\* are removed only on a path that ends in FINISHED.
C28_CancelledImportKeepsObjects ==
    (Returned("ImportANM") /\ result = "CANCELLED") =>
        blend.before.objects \cap {"armature", "mesh"} \subseteq blend.objects

\* C30: when LOLLeagueExportANM_V4.execute has returned, on any path, the
\* scale of the skinned-mesh parent and the active action of the armature are
\* what they were before the call.
C30_ScaleAndActionRestored ==
    Returned("ExportANM") =>
        /\ blend.scale = blend.before.scale
        /\ blend.action = blend.before.action

\* what holds of the scale alone
ScaleRestored == Returned("ExportANM") => blend.scale = blend.before.scale

(***************************************************************************)
(* Specifications: each runs one part of the program and leaves the state  *)
(* of the others alone                                                     *)
\* LOLLeagueLimitInfluences_V4.execute
LimitOthers == <<rootVars, anmVars, sklVars, staticVars, pipeVars, gltfVars, blendVars>>

InitLimit ==
    /\ LimitInit
    /\ RootIdle
    /\ AnmIdle
    /\ SklIdle
    /\ StaticIdle
    /\ PipeIdle
    /\ GltfIdle
    /\ BlendIdle

NextLimit ==
    \/ LimitNoMesh /\ UNCHANGED LimitOthers
    \/ LimitNoGroups /\ UNCHANGED LimitOthers
    \/ LimitBegin /\ UNCHANGED LimitOthers
    \/ LimitVertex /\ UNCHANGED LimitOthers
    \/ LimitEnd /\ UNCHANGED LimitOthers

SpecLimit == InitLimit /\ [][NextLimit]_vars

\* the root-joint codec
RootOthers == <<limVars, anmVars, sklVars, staticVars, pipeVars, gltfVars, blendVars>>

InitRoot ==
    /\ RootInit
    /\ LimitIdle
    /\ AnmIdle
    /\ SklIdle
    /\ StaticIdle
    /\ PipeIdle
    /\ GltfIdle
    /\ BlendIdle

NextRoot ==
    \/ RootEncode /\ UNCHANGED RootOthers
    \/ RootDecode /\ UNCHANGED RootOthers

SpecRoot == InitRoot /\ [][NextRoot]_vars

\* apply_anm_to_armature_direct
AnmOthers == <<limVars, rootVars, sklVars, staticVars, pipeVars, gltfVars, blendVars>>

InitAnm ==
    /\ AnmInit
    /\ LimitIdle
    /\ RootIdle
    /\ SklIdle
    /\ StaticIdle
    /\ PipeIdle
    /\ GltfIdle
    /\ BlendIdle

NextAnm ==
    \/ AnmBegin /\ UNCHANGED AnmOthers
    \/ AnmSkipTrack /\ UNCHANGED AnmOthers
    \/ AnmStartTrack /\ UNCHANGED AnmOthers
    \/ AnmFrame /\ UNCHANGED AnmOthers
    \/ AnmEndTrack /\ UNCHANGED AnmOthers
    \/ AnmEnd /\ UNCHANGED AnmOthers

SpecAnm == InitAnm /\ [][NextAnm]_vars

\* the skeleton-mesh conversions
SklOthers == <<limVars, rootVars, anmVars, staticVars, pipeVars, gltfVars, blendVars>>

InitSkl ==
    /\ SklInit
    /\ LimitIdle
    /\ RootIdle
    /\ AnmIdle
    /\ StaticIdle
    /\ PipeIdle
    /\ GltfIdle
    /\ BlendIdle

NextSkl ==
    \/ SklSknToGltf /\ UNCHANGED SklOthers
    \/ GltfToSklSkn /\ UNCHANGED SklOthers

SpecSkl == InitSkl /\ [][NextSkl]_vars

\* import and export of static objects
StaticOthers == <<limVars, rootVars, anmVars, sklVars, pipeVars, gltfVars, blendVars>>

InitStatic ==
    /\ StaticInit
    /\ LimitIdle
    /\ RootIdle
    /\ AnmIdle
    /\ SklIdle
    /\ PipeIdle
    /\ GltfIdle
    /\ BlendIdle

NextStatic ==
    \/ ScbReadHeader /\ UNCHANGED StaticOthers
    \/ ScbReadVertex /\ UNCHANGED StaticOthers
    \/ ScbReadCentral /\ UNCHANGED StaticOthers
    \/ ScbReadFace /\ UNCHANGED StaticOthers
    \/ ScbEndRead /\ UNCHANGED StaticOthers
    \/ ScoBeginRead /\ UNCHANGED StaticOthers
    \/ ScoReadLine /\ UNCHANGED StaticOthers
    \/ ScoReadVertex /\ UNCHANGED StaticOthers
    \/ ScoEndVerts /\ UNCHANGED StaticOthers
    \/ ScoReadFace /\ UNCHANGED StaticOthers
    \/ ScoEndFaces /\ UNCHANGED StaticOthers
    \/ ScoEndRead /\ UNCHANGED StaticOthers
    \/ CreateMesh /\ UNCHANGED StaticOthers
    \/ SelectMesh /\ UNCHANGED StaticOthers
    \/ ExportSco /\ UNCHANGED StaticOthers
    \/ ExportScb /\ UNCHANGED StaticOthers

SpecStatic == InitStatic /\ [][NextStatic]_vars

\* The SKN+SKL and ANM operator pipelines and the lol2gltf wrappers
PipeOthers == <<limVars, rootVars, anmVars, sklVars, staticVars, gltfVars, blendVars>>

InitPipe ==
    /\ PipeInit
    /\ LimitIdle
    /\ RootIdle
    /\ AnmIdle
    /\ SklIdle
    /\ StaticIdle
    /\ GltfIdle
    /\ BlendIdle

NextPipe ==
    \/ ExportSknValidate /\ UNCHANGED PipeOthers
    \/ ExportSknExportGltf /\ UNCHANGED PipeOthers
    \/ ExportSknConvert /\ UNCHANGED PipeOthers
    \/ ImportSknBegin /\ UNCHANGED PipeOthers
    \/ ImportSknLol2gltf /\ UNCHANGED PipeOthers
    \/ ImportSknFallback /\ UNCHANGED PipeOthers
    \/ ImportSknImportGltf /\ UNCHANGED PipeOthers
    \/ ExportAnmBegin /\ UNCHANGED PipeOthers
    \/ ExportAnmActionExport /\ UNCHANGED PipeOthers
    \/ ExportAnmActionConvert /\ UNCHANGED PipeOthers
    \/ ExportAnmActionMove /\ UNCHANGED PipeOthers
    \/ ExportAnmLoopEnd /\ UNCHANGED PipeOthers
    \/ ExportAnmExportGltf /\ UNCHANGED PipeOthers
    \/ ExportAnmConvert /\ UNCHANGED PipeOthers
    \/ ExportAnmMove /\ UNCHANGED PipeOthers
    \/ ImportAnmBegin /\ UNCHANGED PipeOthers
    \/ ImportAnmExportState /\ UNCHANGED PipeOthers
    \/ ImportAnmToSklSkn /\ UNCHANGED PipeOthers
    \/ ImportAnmConvert /\ UNCHANGED PipeOthers
    \/ ImportAnmImportGltf /\ UNCHANGED PipeOthers
    \/ PipeReturn /\ UNCHANGED PipeOthers

SpecPipe == InitPipe /\ [][NextPipe]_vars

\* export_blender_to_gltf and what execute does with its result
GltfOthers == <<limVars, rootVars, anmVars, sklVars, staticVars, pipeVars, blendVars>>

InitGltf ==
    /\ GltfInit
    /\ LimitIdle
    /\ RootIdle
    /\ AnmIdle
    /\ SklIdle
    /\ StaticIdle
    /\ PipeIdle
    /\ BlendIdle

NextGltf ==
    \/ CheckNames /\ UNCHANGED GltfOthers
    \/ SanitizeNames /\ UNCHANGED GltfOthers
    \/ ExportGltf /\ UNCHANGED GltfOthers
    \/ ExportSknAfterGltf /\ UNCHANGED GltfOthers

SpecGltf == InitGltf /\ [][NextGltf]_vars

\* the ANM operators with the scene they change
BlendOthers == <<limVars, rootVars, anmVars, sklVars, staticVars, gltfVars>>

InitBlend ==
    /\ BlendInit
    /\ LimitIdle
    /\ RootIdle
    /\ AnmIdle
    /\ SklIdle
    /\ StaticIdle
    /\ PipeInit
    /\ GltfIdle

NextBlend ==
    \/ ExportAnmBeginScene /\ UNCHANGED BlendOthers
    \/ ExportAnmActionExportScene /\ UNCHANGED BlendOthers
    \/ ExportAnmActionConvertScene /\ UNCHANGED BlendOthers
    \/ ExportAnmActionMoveScene /\ UNCHANGED BlendOthers
    \/ ExportAnmLoopEndScene /\ UNCHANGED BlendOthers
    \/ ExportAnmExportGltfScene /\ UNCHANGED BlendOthers
    \/ ExportAnmConvertScene /\ UNCHANGED BlendOthers
    \/ ExportAnmMoveScene /\ UNCHANGED BlendOthers
    \/ ImportAnmBeginScene /\ UNCHANGED BlendOthers
    \/ ImportAnmExportStateScene /\ UNCHANGED BlendOthers
    \/ ImportAnmToSklSknScene /\ UNCHANGED BlendOthers
    \/ ImportAnmConvertScene /\ UNCHANGED BlendOthers
    \/ ImportAnmImportGltfScene /\ UNCHANGED BlendOthers

SpecBlend == InitBlend /\ [][NextBlend]_vars

\* export_scb of a mesh in the scene, and read_scb of the written file
InitScbScene ==
    /\ ScbSceneInit
    /\ LimitIdle
    /\ RootIdle
    /\ AnmIdle
    /\ SklIdle
    /\ PipeIdle
    /\ GltfIdle
    /\ BlendIdle

NextScbScene ==
    \/ ExportScb /\ UNCHANGED StaticOthers
    \/ ExportScbWithRiot /\ UNCHANGED StaticOthers
    \/ ReadBack /\ UNCHANGED StaticOthers
    \/ ScbReadHeader /\ UNCHANGED StaticOthers
    \/ ScbReadVertex /\ UNCHANGED StaticOthers
    \/ ScbReadCentral /\ UNCHANGED StaticOthers
    \/ ScbReadFace /\ UNCHANGED StaticOthers
    \/ ScbEndRead /\ UNCHANGED StaticOthers

SpecScbScene == InitScbScene /\ [][NextScbScene]_vars

\* the inverse-bind transforms through convert_skl_skn_to_gltf and back
InitBind ==
    /\ BindInit
    /\ LimitIdle
    /\ RootIdle
    /\ AnmIdle
    /\ StaticIdle
    /\ PipeIdle
    /\ GltfIdle
    /\ BlendIdle

NextBind ==
    \/ WriteInverseBind /\ UNCHANGED SklOthers
    \/ ReadInverseBind /\ UNCHANGED SklOthers

SpecBind == InitBind /\ [][NextBind]_vars

\* read_scb and read_sco on files that end early
InitTruncated ==
    /\ TruncatedInit
    /\ LimitIdle
    /\ RootIdle
    /\ AnmIdle
    /\ SklIdle
    /\ PipeIdle
    /\ GltfIdle
    /\ BlendIdle

NextTruncated ==
    \/ ScbReadHeader /\ UNCHANGED StaticOthers
    \/ ScbReadVertex /\ UNCHANGED StaticOthers
    \/ ScbReadCentral /\ UNCHANGED StaticOthers
    \/ ScbReadFace /\ UNCHANGED StaticOthers
    \/ ScbEndRead /\ UNCHANGED StaticOthers
    \/ ScoBeginRead /\ UNCHANGED StaticOthers
    \/ ScoReadLine /\ UNCHANGED StaticOthers
    \/ ScoReadVertex /\ UNCHANGED StaticOthers
    \/ ScoEndVerts /\ UNCHANGED StaticOthers
    \/ ScoReadFace /\ UNCHANGED StaticOthers
    \/ ScoEndFaces /\ UNCHANGED StaticOthers
    \/ ScoEndRead /\ UNCHANGED StaticOthers
    \/ CreateMesh /\ UNCHANGED StaticOthers

SpecTruncated == InitTruncated /\ [][NextTruncated]_vars

\* export_sco of a mesh the user has named, and read_sco of the written file
InitNamed ==
    /\ NamedInit
    /\ LimitIdle
    /\ RootIdle
    /\ AnmIdle
    /\ SklIdle
    /\ PipeIdle
    /\ GltfIdle
    /\ BlendIdle

NextNamed ==
    \/ ExportSco /\ UNCHANGED StaticOthers
    \/ ReadBack /\ UNCHANGED StaticOthers
    \/ ScoBeginRead /\ UNCHANGED StaticOthers
    \/ ScoReadLine /\ UNCHANGED StaticOthers
    \/ ScoReadVertex /\ UNCHANGED StaticOthers
    \/ ScoEndVerts /\ UNCHANGED StaticOthers
    \/ ScoReadFace /\ UNCHANGED StaticOthers
    \/ ScoEndFaces /\ UNCHANGED StaticOthers
    \/ ScoEndRead /\ UNCHANGED StaticOthers

SpecNamed == InitNamed /\ [][NextNamed]_vars

====
